---- MODULE Spec2Model ----
(***************************************************************************)
(* A model of the videobgremover composition engine                        *)
(* (src/src/videobgremover/media): the Composition aggregate, its          *)
(* LayerHandle builder, the compiler _build_ffmpeg_argv that turns a       *)
(* Composition into an ffmpeg argument vector, and the export step _run.   *)
(*                                                                         *)
(* Conventions                                                             *)
(*   - Optional[T] is a sequence: None is <<>>, a value v is <<v>>.        *)
(*   - Times are whole seconds; volumes and opacities are hundredths       *)
(*     (1.0 is 100), so that clamping and comparisons with 1.0 are exact.  *)
(*   - A filter "[a][b]op=x:y[out]" is the record                          *)
(*       [ins |-> <<"[a]","[b]">>, op |-> "op", args |-> <<"x","y">>,      *)
(*        out |-> "[out]"];                                                *)
(*     FilterText writes it out for the argument vector.                   *)
(***************************************************************************)
EXTENDS Integers, Sequences, FiniteSets, TLC

VARIABLES
    background,         \* Composition._background   (Optional[BaseBackground])
    layers,             \* Composition._layers       (list of layer dicts)
    canvas_hint,        \* Composition._canvas_hint  (Optional[(w, h, fps)])
    explicit_duration,  \* Composition._explicit_duration (Optional[float])
    webm_support,       \* whether the installed ffmpeg lists the libvpx-vp9 decoder
    compiled,           \* outcome of the last dry_run since the last mutation, and
                        \* whether that dry_run repeated an earlier one
    run,                \* the to_file call in progress: position, mode, callback log
    edits,              \* number of LayerHandle calls made so far
    built,              \* outcome of the last source factory call (probe included)
    client,             \* the VideoBGRemoverClient.wait call in progress and its clock
    importer            \* the Importer.remove_background call in progress

compVars == <<background, layers, canvas_hint, explicit_duration>>
apiVars == <<client, importer>>
libVars == <<compVars, webm_support, compiled, run, edits, built>>
vars == <<background, layers, canvas_hint, explicit_duration, webm_support,
          compiled, run, edits, built, client, importer>>

(***************************************************************************)
(* Bounds of the model.                                                    *)
(***************************************************************************)
MaxLayers == 2
MaxEdits == 1
MaxPolls == 4

None == <<>>
Some(v) == <<v>>
IsNone(o) == o = <<>>
Val(o) == o[1]

Range(s) == {s[i] : i \in 1..Len(s)}

Str(n) == ToString(n)

Max2(a, b) == IF a >= b THEN a ELSE b
Min2(a, b) == IF a <= b THEN a ELSE b

\* max(0.0, min(1.0, x)) on hundredths
Clamp01(x) == Max2(0, Min2(100, x))

(***************************************************************************)
(* Enumerations (core/types.py).                                           *)
(***************************************************************************)
Anchor == {"center", "top-left", "top-center", "top-right", "center-left",
           "center-right", "bottom-left", "bottom-center", "bottom-right"}

SizeMode == {"contain", "cover", "px", "canvas_percent", "scale",
             "fit_width", "fit_height"}

(***************************************************************************)
(* Foreground (media/foregrounds.py).  video_info is the probe result kept *)
(* by VideoSource._probe_and_store: here its duration entry, None when the *)
(* probe fell back or never ran.                                           *)
(***************************************************************************)
Foreground(format, primary_path, mask_path, audio_path, duration) ==
    [format |-> format, primary_path |-> primary_path, mask_path |-> mask_path,
     audio_path |-> audio_path, source_trim |-> None, duration |-> duration]

from_webm_vp9(path, duration) == Foreground("webm_vp9", path, None, None, duration)

from_mov_prores(path, duration) == Foreground("mov_prores", path, None, None, duration)

from_png_sequence(path) == Foreground("png_sequence", path, None, None, None)

from_video_and_mask(video_path, mask_path, audio_path, duration) ==
    Foreground("pro_bundle", video_path, Some(mask_path), audio_path, duration)

from_stacked_video(path, duration) == Foreground("stacked_video", path, None, None, duration)

\* Foreground.subclip without the copy of the probe result
SubclipWithoutProbe(fg, start, end) ==
    [fg EXCEPT !.source_trim = Some([start |-> start, end |-> end]), !.duration = None]

\* Foreground.subclip: a new instance, same fields and probe result, new trim
FgSubclip(fg, start, end) == [fg EXCEPT !.source_trim = Some([start |-> start, end |-> end])]

\* Foreground._get_file_extension, on the paths the model uses
FileExtension(path) ==
    CASE path \in {"fg.webm", "color.webm"} -> ".webm"
      [] path \in {"fg.mov"} -> ".mov"
      [] path \in {"fg.zip"} -> ".zip"
      [] path \in {"color.mp4", "alpha.mp4", "stacked.mp4", "bg.mp4"} -> ".mp4"
      [] path \in {"audio.m4a"} -> ".m4a"
      [] OTHER -> ""

(***************************************************************************)
(* Backgrounds (media/backgrounds.py).  One record shape for the four      *)
(* classes; kind is the class.  duration, audio_stream and needs_vp9 are   *)
(* the entries of the probed _video_info a VideoBackground reads.          *)
(***************************************************************************)
BaseBackground(kind, width, height, fps, source) ==
    [kind |-> kind, width |-> width, height |-> height, fps |-> fps,
     audio_enabled |-> FALSE, audio_volume |-> 100, source |-> source,
     source_trim |-> None, duration |-> None, audio_stream |-> FALSE,
     needs_vp9 |-> FALSE]

from_color(hex_color, width, height, fps) == BaseBackground("color", width, height, fps, hex_color)

from_image(path, width, height, fps) == BaseBackground("image", width, height, fps, path)

empty(width, height, fps) == BaseBackground("empty", width, height, fps, "")

\* Background.from_video: probed dimensions, audio enabled by default, probe stored
from_video(path, width, height, fps, duration, audio_stream, needs_vp9) ==
    [BaseBackground("video", width, height, fps, path) EXCEPT
        !.audio_enabled = TRUE, !.duration = duration,
        !.audio_stream = audio_stream, !.needs_vp9 = needs_vp9]

\* BaseBackground.audio without the copy of the probe result: the new instance has
\* no _video_info, so it reports no audio stream and no duration
AudioWithoutProbe(bg, enabled, volume) ==
    [bg EXCEPT !.audio_enabled = enabled, !.audio_volume = Clamp01(volume),
               !.duration = None, !.audio_stream = FALSE, !.needs_vp9 = FALSE]

\* BaseBackground.audio: a new instance, audio settings replaced, probe copied
BgAudio(bg, enabled, volume) ==
    [bg EXCEPT !.audio_enabled = enabled, !.audio_volume = Clamp01(volume)]

\* VideoBackground.subclip
BgSubclip(bg, start, end) == [bg EXCEPT !.source_trim = Some([start |-> start, end |-> end])]

controls_duration(bg) == bg.kind = "video"

\* VideoBackground.get_duration: the probed duration as a number, None without one
get_duration(bg) ==
    IF ~IsNone(bg.duration) /\ Val(bg.duration) # 0 THEN bg.duration ELSE None

has_audio(bg) == bg.kind = "video" /\ bg.audio_stream

(***************************************************************************)
(* Probing a source (media/video_source.py, media/backgrounds.py).  What   *)
(* one ffprobe invocation did is the record                                *)
(*   [timed_out, returncode, well_formed, video_stream, width, height,     *)
(*    fps, duration, audio_stream, vp9_alpha];                             *)
(* the fields after video_stream are what its output says when there is    *)
(* one.  The probes of the model carry no rotation tag.                    *)
(***************************************************************************)
Probe(timed_out, returncode, well_formed, video_stream, duration) ==
    [timed_out |-> timed_out, returncode |-> returncode, well_formed |-> well_formed,
     video_stream |-> video_stream, width |-> 1280, height |-> 720, fps |-> 25,
     duration |-> duration, audio_stream |-> TRUE, vp9_alpha |-> FALSE]

\* VideoSource._fallback_info: guesses from the file extension, no duration, no streams
_fallback_info(source) ==
    [fallback |-> TRUE, duration |-> None, audio_stream |-> FALSE,
     needs_vp9 |-> FileExtension(source) = ".webm"]

\* VideoSource._probe_video_info: every failure is logged and answered by the fallback
_probe_video_info(source, p) ==
    IF p.timed_out THEN _fallback_info(source)
    ELSE IF p.returncode # 0 THEN _fallback_info(source)
    ELSE IF ~p.well_formed THEN _fallback_info(source)
    ELSE IF ~p.video_stream THEN _fallback_info(source)
    ELSE [fallback |-> FALSE, duration |-> p.duration, audio_stream |-> p.audio_stream,
          needs_vp9 |-> p.vp9_alpha]

\* _probe_video_dimensions: every failure is raised as a RuntimeError
_probe_video_dimensions(p) ==
    IF p.timed_out \/ p.returncode # 0 \/ ~p.well_formed \/ ~p.video_stream
    THEN [status |-> "RuntimeError", width |-> 0, height |-> 0, fps |-> 0]
    ELSE [status |-> "ok", width |-> p.width, height |-> p.height, fps |-> p.fps]

(***************************************************************************)
(* Composition.add: the layer dict with its defaults.                      *)
(***************************************************************************)
NewLayer(fg, n) ==
    [name |-> "layer" \o Str(n), fg |-> fg,
     anchor |-> "center", dx |-> 0, dy |-> 0, x_expr |-> None, y_expr |-> None,
     size |-> [mode |-> "contain", width |-> None, height |-> None,
               percent |-> None, scale |-> None],
     opacity |-> 100, rotate |-> 0, crop |-> None,
     comp_start |-> None, comp_end |-> None, comp_duration |-> None,
     source_trim |-> None,
     audio_enabled |-> TRUE, audio_volume |-> 100,
     alpha_enabled |-> TRUE,
     z |-> n]

(***************************************************************************)
(* Canvas and duration policies.                                           *)
(***************************************************************************)
\* Composition._get_canvas_size: None stands for the RuntimeError
_get_canvas_size(bg, hint) ==
    IF ~IsNone(bg) /\ Val(bg).width # 0 /\ Val(bg).height # 0 /\ Val(bg).fps # 0
    THEN Some([width |-> Val(bg).width, height |-> Val(bg).height, fps |-> Val(bg).fps])
    ELSE IF ~IsNone(hint) THEN hint
    ELSE None

\* a faulty variant of _get_foreground_duration: a trimmed source reports the
\* length of its trimmed range
TrimmedForegroundDuration(fg) ==
    IF ~IsNone(fg.source_trim) /\ ~IsNone(Val(fg.source_trim).end)
    THEN Some(Val(Val(fg.source_trim).end) - Val(fg.source_trim).start)
    ELSE IF ~IsNone(fg.duration) /\ Val(fg.duration) # 0 THEN fg.duration ELSE None

\* Composition._get_foreground_duration
_get_foreground_duration(fg) ==
    IF ~IsNone(fg.duration) /\ Val(fg.duration) # 0 THEN fg.duration ELSE None

\* Composition._get_longest_foreground_duration
RECURSIVE LongestFrom(_, _, _)
LongestFrom(ls, i, max_duration) ==
    IF i > Len(ls) THEN max_duration
    ELSE LET fg_duration == _get_foreground_duration(ls[i].fg)
         IN  IF ~IsNone(fg_duration) /\ Val(fg_duration) > max_duration
             THEN LongestFrom(ls, i + 1, Val(fg_duration))
             ELSE LongestFrom(ls, i + 1, max_duration)

_get_longest_foreground_duration(ls) ==
    LET max_duration == LongestFrom(ls, 1, 0)
    IN  IF max_duration > 0 THEN Some(max_duration) ELSE None

\* Composition._get_composition_duration
_get_composition_duration(bg, ls, explicit) ==
    IF ~IsNone(explicit) THEN explicit
    ELSE IF ~IsNone(bg) /\ controls_duration(Val(bg))
            /\ ~IsNone(get_duration(Val(bg))) /\ Val(get_duration(Val(bg))) > 0
         THEN get_duration(Val(bg))
         ELSE _get_longest_foreground_duration(ls)

(***************************************************************************)
(* Input recipes.  Each returns the arguments it adds, the entries it adds *)
(* to the name -> slot map, the key of its audio input, and the number of  *)
(* external processes it started (ctx.check_webm_support runs              *)
(* "ffmpeg -decoders" through subprocess.run on every call).               *)
(***************************************************************************)
\* MediaContext.check_webm_support: one subprocess per call
check_webm_support(support) == [result |-> support, spawns |-> 1]

\* the trim arguments without the length of the kept part
StartOnly(layer) ==
    LET fg == layer.fg
    IN  IF ~IsNone(fg.source_trim) THEN <<"-ss", Str(Val(fg.source_trim).start)>> ELSE <<>>

\* get_source_trim_args, nested in _build_ffmpeg_argv: reads the Foreground's trim
get_source_trim_args(layer) ==
    LET fg == layer.fg
    IN  IF ~IsNone(fg.source_trim)
        THEN LET t == Val(fg.source_trim)
             IN  <<"-ss", Str(t.start)>> \o
                 (IF ~IsNone(t.end) THEN <<"-t", Str(Val(t.end) - t.start)>> ELSE <<>>)
        ELSE <<>>

LayerKey(layer_idx) == "layer_" \o Str(layer_idx)

Recipe(args, map, audio_key, spawns) ==
    [ok |-> TRUE, args |-> args, map |-> map, audio_input_key |-> audio_key,
     spawns |-> spawns]

RecipeError(spawns) ==
    [ok |-> FALSE, args |-> <<>>, map |-> <<>>, audio_input_key |-> "", spawns |-> spawns]

\* Foreground._get_webm_inputs
_get_webm_inputs(fg, input_idx, layer_idx, support, source_trim_args) ==
    LET chk == check_webm_support(support)
        args == IF chk.result
                THEN <<"-c:v", "libvpx-vp9">> \o source_trim_args \o <<"-i", fg.primary_path>>
                ELSE source_trim_args \o <<"-i", fg.primary_path>>
    IN  Recipe(args, LayerKey(layer_idx) :> input_idx, LayerKey(layer_idx), chk.spawns)

\* Foreground._get_mov_inputs
_get_mov_inputs(fg, input_idx, layer_idx, support, source_trim_args) ==
    Recipe(source_trim_args \o <<"-i", fg.primary_path>>,
           LayerKey(layer_idx) :> input_idx, LayerKey(layer_idx), 0)

\* Foreground._get_bundle_inputs
_get_bundle_inputs(fg, input_idx, layer_idx, support, source_trim_args) ==
    IF IsNone(fg.mask_path) THEN RecipeError(0)
    ELSE
    LET is_webm == FileExtension(fg.primary_path) = ".webm"
        chk == IF is_webm THEN check_webm_support(support)
               ELSE [result |-> FALSE, spawns |-> 0]
        rgb_args == IF is_webm /\ chk.result
                    THEN <<"-c:v", "libvpx-vp9">> \o source_trim_args
                         \o <<"-i", fg.primary_path>>
                    ELSE source_trim_args \o <<"-i", fg.primary_path>>
        mask_args == source_trim_args \o <<"-i", Val(fg.mask_path)>>
        rgb_key == LayerKey(layer_idx) \o "_rgb"
        mask_key == LayerKey(layer_idx) \o "_mask"
        audio_key == LayerKey(layer_idx) \o "_audio"
        base_map == (rgb_key :> input_idx) @@ (mask_key :> (input_idx + 1))
    IN  IF ~IsNone(fg.audio_path)
        THEN Recipe(rgb_args \o mask_args \o source_trim_args
                      \o <<"-i", Val(fg.audio_path)>>,
                    base_map @@ (audio_key :> (input_idx + 2)), audio_key, chk.spawns)
        ELSE Recipe(rgb_args \o mask_args, base_map, rgb_key, chk.spawns)

\* Foreground._get_stacked_inputs
_get_stacked_inputs(fg, input_idx, layer_idx, support, source_trim_args) ==
    Recipe(source_trim_args \o <<"-i", fg.primary_path>>,
           (LayerKey(layer_idx) \o "_stacked") :> input_idx,
           LayerKey(layer_idx) \o "_stacked", 0)

\* a dispatch that takes every other format for a stacked video
AnyFormat(fg, input_idx, layer_idx, support, source_trim_args) ==
    CASE fg.format = "webm_vp9" ->
            _get_webm_inputs(fg, input_idx, layer_idx, support, source_trim_args)
      [] fg.format = "mov_prores" ->
            _get_mov_inputs(fg, input_idx, layer_idx, support, source_trim_args)
      [] fg.format = "pro_bundle" ->
            _get_bundle_inputs(fg, input_idx, layer_idx, support, source_trim_args)
      [] OTHER -> _get_stacked_inputs(fg, input_idx, layer_idx, support, source_trim_args)

\* Foreground.get_ffmpeg_inputs: dispatch on the format, ValueError otherwise
get_ffmpeg_inputs(fg, input_idx, layer_idx, support, source_trim_args) ==
    CASE fg.format = "webm_vp9" ->
            _get_webm_inputs(fg, input_idx, layer_idx, support, source_trim_args)
      [] fg.format = "mov_prores" ->
            _get_mov_inputs(fg, input_idx, layer_idx, support, source_trim_args)
      [] fg.format = "pro_bundle" ->
            _get_bundle_inputs(fg, input_idx, layer_idx, support, source_trim_args)
      [] fg.format = "stacked_video" ->
            _get_stacked_inputs(fg, input_idx, layer_idx, support, source_trim_args)
      [] OTHER -> RecipeError(0)

\* VideoSource.get_decoder_args: the decoder check runs only for a VP9-alpha source
get_decoder_args(bg, support) ==
    IF bg.needs_vp9
    THEN LET chk == check_webm_support(support)
         IN  [args |-> IF chk.result THEN <<"-c:v", "libvpx-vp9">> ELSE <<>>,
              spawns |-> chk.spawns]
    ELSE [args |-> <<>>, spawns |-> 0]

LavfiColor(color, w, h, fps) ==
    "color=c=" \o color \o ":size=" \o Str(w) \o "x" \o Str(h) \o ":rate=" \o Str(fps)

\* <Class>Background.get_ffmpeg_input_args, and the no-background branch of
\* _build_ffmpeg_argv
BgInputArgs(bg, canvas, support) ==
    IF IsNone(bg)
    THEN [args |-> <<"-f", "lavfi", "-i",
                     LavfiColor("black@0.0", canvas.width, canvas.height, canvas.fps)>>,
          spawns |-> 0]
    ELSE LET b == Val(bg) IN
    CASE b.kind = "color" ->
            [args |-> <<"-f", "lavfi", "-i",
                        LavfiColor(b.source, canvas.width, canvas.height, canvas.fps)>>,
             spawns |-> 0]
      [] b.kind = "image" -> [args |-> <<"-loop", "1", "-i", b.source>>, spawns |-> 0]
      [] b.kind = "empty" ->
            [args |-> <<"-f", "lavfi", "-i",
                        LavfiColor("black@0.0", canvas.width, canvas.height, canvas.fps)>>,
             spawns |-> 0]
      [] OTHER ->
            LET dec == get_decoder_args(b, support)
                trim == IF ~IsNone(b.source_trim)
                        THEN LET t == Val(b.source_trim)
                             IN  <<"-ss", Str(t.start)>> \o
                                 (IF ~IsNone(t.end)
                                  THEN <<"-t", Str(Val(t.end) - t.start)>> ELSE <<>>)
                        ELSE <<>>
            IN  [args |-> dec.args \o trim \o <<"-i", b.source>>, spawns |-> dec.spawns]

(***************************************************************************)
(* Format filters (Foreground.get_ffmpeg_filters and its four variants).   *)
(***************************************************************************)
Filter(ins, op, args, out) == [ins |-> ins, op |-> op, args |-> args, out |-> out]

Pad(name) == "[" \o name \o "]"

VideoPad(idx) == "[" \o Str(idx) \o ":v]"

AudioStream(idx) == Str(idx) \o ":a"

\* The expression a geq filter is given: if(<compare>(lum(X,Y), than), yes, no).
\* ExprText is the text the command carries, EvalExpr the value ffmpeg computes
\* from it for a pixel of luminance lum (gte is >=, gt is >).
Expr(compare, than, yes, no) == [compare |-> compare, than |-> than, yes |-> yes, no |-> no]

ExprText(e) ==
    "'if(" \o e.compare \o "(lum(X,Y)," \o Str(e.than) \o "),"
           \o Str(e.yes) \o "," \o Str(e.no) \o ")'"

EvalExpr(e, lum) ==
    LET holds == CASE e.compare = "gte" -> lum >= e.than
                   [] e.compare = "gt" -> lum > e.than
                   [] e.compare = "lte" -> lum <= e.than
                   [] OTHER -> lum < e.than
    IN  IF holds THEN e.yes ELSE e.no

\* the mask binarisation of the bundle variant and of the stacked variant
BundleBinarize == Expr("gte", 128, 255, 0)

\* a binarisation that leaves the threshold value itself transparent
ExclusiveBinarize == Expr("gt", 128, 255, 0)

StackedBinarize == Expr("gte", 128, 255, 0)

\* a single-file variant that never converts its stream, alpha or not
Unconverted(layer_label, input_map, alpha_enabled) == <<>>

\* Foreground._get_webm_filters and _get_mov_filters (identical bodies)
_get_webm_filters(layer_label, input_map, alpha_enabled) ==
    IF ~alpha_enabled
    THEN <<Filter(<<VideoPad(input_map[layer_label])>>, "format", <<"rgb24">>,
                  Pad(layer_label \o "_merged"))>>
    ELSE <<>>

\* a bundle variant whose merge reads the grey mask instead of the binarised one
UnbinarizedMerge(layer_label, input_map, alpha_enabled) ==
    LET rgb_input == VideoPad(input_map[layer_label \o "_rgb"])
        mask_input == VideoPad(input_map[layer_label \o "_mask"])
    IN  << Filter(<<rgb_input>>, "format", <<"rgba">>, Pad(layer_label \o "_rgba")),
           Filter(<<mask_input>>, "format", <<"gray">>, Pad(layer_label \o "_mask_gray")),
           Filter(<<Pad(layer_label \o "_mask_gray")>>, "geq",
                  <<ExprText(BundleBinarize)>>, Pad(layer_label \o "_binary_mask")),
           Filter(<<Pad(layer_label \o "_rgba"), Pad(layer_label \o "_mask_gray")>>,
                  "alphamerge", <<>>, Pad(layer_label \o "_merged")) >>

\* Foreground._get_bundle_filters
_get_bundle_filters(layer_label, input_map, alpha_enabled) ==
    LET rgb_input == VideoPad(input_map[layer_label \o "_rgb"])
    IN  IF alpha_enabled
        THEN LET mask_input == VideoPad(input_map[layer_label \o "_mask"])
             IN  << Filter(<<rgb_input>>, "format", <<"rgba">>, Pad(layer_label \o "_rgba")),
                    Filter(<<mask_input>>, "format", <<"gray">>,
                           Pad(layer_label \o "_mask_gray")),
                    Filter(<<Pad(layer_label \o "_mask_gray")>>, "geq",
                           <<ExprText(BundleBinarize)>>,
                           Pad(layer_label \o "_binary_mask")),
                    Filter(<<Pad(layer_label \o "_rgba"), Pad(layer_label \o "_binary_mask")>>,
                           "alphamerge", <<>>, Pad(layer_label \o "_merged")) >>
        ELSE <<Filter(<<rgb_input>>, "format", <<"rgb24">>, Pad(layer_label \o "_merged"))>>

\* Foreground._get_stacked_filters
_get_stacked_filters(layer_label, input_map, alpha_enabled) ==
    LET stacked_input == VideoPad(input_map[layer_label \o "_stacked"])
        top == Filter(<<stacked_input>>, "crop", <<"iw", "ih/2", "0", "0">>,
                      Pad(layer_label \o "_top"))
    IN  IF alpha_enabled
        THEN << top,
                Filter(<<Pad(layer_label \o "_top")>>, "format", <<"rgba">>,
                       Pad(layer_label \o "_top_rgba")),
                Filter(<<stacked_input>>, "crop", <<"iw", "ih/2", "0", "ih/2">>,
                       Pad(layer_label \o "_bottom")),
                Filter(<<Pad(layer_label \o "_bottom")>>, "format", <<"gray">>,
                       Pad(layer_label \o "_mask_gray")),
                Filter(<<Pad(layer_label \o "_mask_gray")>>, "geq",
                       <<ExprText(StackedBinarize)>>,
                       Pad(layer_label \o "_binary_mask")),
                Filter(<<Pad(layer_label \o "_top_rgba"), Pad(layer_label \o "_binary_mask")>>,
                       "alphamerge", <<>>, Pad(layer_label \o "_merged")) >>
        ELSE << top,
                Filter(<<Pad(layer_label \o "_top")>>, "format", <<"rgb24">>,
                       Pad(layer_label \o "_merged")) >>

\* Foreground.get_ffmpeg_filters (formats that reach it passed get_ffmpeg_inputs)
get_ffmpeg_filters(fg, layer_label, input_map, alpha_enabled) ==
    CASE fg.format \in {"webm_vp9", "mov_prores"} ->
            _get_webm_filters(layer_label, input_map, alpha_enabled)
      [] fg.format = "pro_bundle" ->
            _get_bundle_filters(layer_label, input_map, alpha_enabled)
      [] OTHER -> _get_stacked_filters(layer_label, input_map, alpha_enabled)

\* Foreground.get_current_input_label
get_current_input_label(fg, layer_label, alpha_enabled) ==
    IF fg.format \in {"webm_vp9", "mov_prores"} /\ alpha_enabled
    THEN "[" \o layer_label \o ":v]"
    ELSE Pad(layer_label \o "_merged")

(***************************************************************************)
(* Layer transformations.                                                  *)
(***************************************************************************)
\* Composition._get_aspect_ratio_constraint: None is "no constraint"
_get_aspect_ratio_constraint(size_mode) ==
    IF size_mode \in {"canvas_percent", "px", "contain", "fit_width", "fit_height"}
    THEN Some("decrease")
    ELSE IF size_mode = "cover" THEN Some("increase")
    ELSE None

OrDefault(o, d) == IF ~IsNone(o) /\ Val(o) # 0 THEN Val(o) ELSE d

\* Composition._calculate_target_dimensions
_calculate_target_dimensions(size, canvas_width, canvas_height) ==
    IF size.mode # "canvas_percent"
    THEN [w |-> canvas_width, h |-> canvas_height]
    ELSE IF ~IsNone(size.width) /\ ~IsNone(size.height)
    THEN [w |-> (canvas_width * Val(size.width)) \div 100,
          h |-> (canvas_height * Val(size.height)) \div 100]
    ELSE IF ~IsNone(size.width)
    THEN [w |-> (canvas_width * Val(size.width)) \div 100,
          h |-> (canvas_height * OrDefault(size.percent, 100)) \div 100]
    ELSE IF ~IsNone(size.height)
    THEN [w |-> (canvas_width * OrDefault(size.percent, 100)) \div 100,
          h |-> (canvas_height * Val(size.height)) \div 100]
    ELSE IF ~IsNone(size.percent) /\ Val(size.percent) # 0
    THEN [w |-> (canvas_width * Val(size.percent)) \div 100,
          h |-> (canvas_height * Val(size.percent)) \div 100]
    ELSE [w |-> canvas_width, h |-> canvas_height]

\* the target of the scale filter; applied is scale_applied
ScaleTarget(size, canvas_width, canvas_height) ==
    CASE size.mode = "px" ->
            IF ~IsNone(size.width) /\ Val(size.width) # 0
               /\ ~IsNone(size.height) /\ Val(size.height) # 0
            THEN [applied |-> TRUE, w |-> Str(Val(size.width)), h |-> Str(Val(size.height))]
            ELSE [applied |-> FALSE, w |-> "", h |-> ""]
      [] size.mode = "canvas_percent" ->
            LET t == _calculate_target_dimensions(size, canvas_width, canvas_height)
            IN  [applied |-> TRUE, w |-> Str(t.w), h |-> Str(t.h)]
      [] size.mode \in {"contain", "cover"} ->
            [applied |-> TRUE, w |-> Str(canvas_width), h |-> Str(canvas_height)]
      [] size.mode = "fit_width" -> [applied |-> TRUE, w |-> Str(canvas_width), h |-> "-1"]
      [] size.mode = "fit_height" -> [applied |-> TRUE, w |-> "-1", h |-> Str(canvas_height)]
      [] OTHER ->
            IF ~IsNone(size.width) /\ ~IsNone(size.height)
            THEN [applied |-> TRUE, w |-> "iw*" \o Str(Val(size.width)),
                  h |-> "ih*" \o Str(Val(size.height))]
            ELSE IF ~IsNone(size.scale)
            THEN [applied |-> TRUE, w |-> "iw*" \o Str(Val(size.scale)),
                  h |-> "ih*" \o Str(Val(size.scale))]
            ELSE IF ~IsNone(size.width)
            THEN [applied |-> TRUE, w |-> "iw*" \o Str(Val(size.width)),
                  h |-> "ih*" \o Str(Val(size.width))]
            ELSE IF ~IsNone(size.height)
            THEN [applied |-> TRUE, w |-> "iw*" \o Str(Val(size.height)),
                  h |-> "ih*" \o Str(Val(size.height))]
            ELSE [applied |-> TRUE, w |-> "iw", h |-> "ih"]

\* one stage of the chain: append a filter reading the current pad
Stage(st, cond, op, args, next_label) ==
    IF cond
    THEN [filters |-> Append(st.filters, Filter(<<st.cur>>, op, args, next_label)),
          cur |-> next_label]
    ELSE st

\* the same stages with the opacity stage moved in front of the timeline shift
OpacityFirst(layer, layer_idx, current_input, canvas_width, canvas_height) ==
    LET layer_label == LayerKey(layer_idx)
        s0 == [filters |-> <<>>, cur |-> current_input]
        s1 == Stage(s0, layer.opacity # 100, "colorchannelmixer",
                    <<"aa=" \o Str(layer.opacity)>>, Pad(layer_label \o "_opacity"))
        timed == ~IsNone(layer.comp_start) /\ Val(layer.comp_start) > 0
        s2 == Stage(s1, timed, "setpts",
                    <<"PTS-STARTPTS,setpts=PTS+"
                      \o (IF timed THEN Str(Val(layer.comp_start)) ELSE "") \o "/TB">>,
                    Pad(layer_label \o "_timed"))
        s3 == Stage(s2, ~IsNone(layer.crop), "crop",
                    IF IsNone(layer.crop) THEN <<>>
                    ELSE <<Str(Val(layer.crop).w), Str(Val(layer.crop).h),
                           Str(Val(layer.crop).x), Str(Val(layer.crop).y)>>,
                    Pad(layer_label \o "_crop"))
        target == ScaleTarget(layer.size, canvas_width, canvas_height)
        aspect_constraint == _get_aspect_ratio_constraint(layer.size.mode)
        s4 == Stage(s3, target.applied, "scale",
                    <<target.w, target.h>> \o
                    (IF ~IsNone(aspect_constraint)
                     THEN <<"force_original_aspect_ratio=" \o Val(aspect_constraint)>>
                     ELSE <<>>),
                    Pad(layer_label \o "_scale"))
        s5 == Stage(s4, layer.rotate # 0, "rotate", <<Str(layer.rotate) \o "*PI/180">>,
                    Pad(layer_label \o "_rotate"))
        final == Pad(layer_label \o "_final")
    IN  IF Len(s5.filters) > 0 /\ s5.cur # final
        THEN Append(s5.filters, Filter(<<s5.cur>>, "null", <<>>, final))
        ELSE s5.filters

\* Composition._get_layer_transformation_filters
_get_layer_transformation_filters(layer, layer_idx, current_input, canvas_width, canvas_height) ==
    LET layer_label == LayerKey(layer_idx)
        s0 == [filters |-> <<>>, cur |-> current_input]
        timed == ~IsNone(layer.comp_start) /\ Val(layer.comp_start) > 0
        s1 == Stage(s0, timed, "setpts",
                    <<"PTS-STARTPTS,setpts=PTS+"
                      \o (IF timed THEN Str(Val(layer.comp_start)) ELSE "") \o "/TB">>,
                    Pad(layer_label \o "_timed"))
        s2 == Stage(s1, ~IsNone(layer.crop), "crop",
                    IF IsNone(layer.crop) THEN <<>>
                    ELSE <<Str(Val(layer.crop).w), Str(Val(layer.crop).h),
                           Str(Val(layer.crop).x), Str(Val(layer.crop).y)>>,
                    Pad(layer_label \o "_crop"))
        target == ScaleTarget(layer.size, canvas_width, canvas_height)
        aspect_constraint == _get_aspect_ratio_constraint(layer.size.mode)
        s3 == Stage(s2, target.applied, "scale",
                    <<target.w, target.h>> \o
                    (IF ~IsNone(aspect_constraint)
                     THEN <<"force_original_aspect_ratio=" \o Val(aspect_constraint)>>
                     ELSE <<>>),
                    Pad(layer_label \o "_scale"))
        s4 == Stage(s3, layer.rotate # 0, "rotate", <<Str(layer.rotate) \o "*PI/180">>,
                    Pad(layer_label \o "_rotate"))
        s5 == Stage(s4, layer.opacity # 100, "colorchannelmixer",
                    <<"aa=" \o Str(layer.opacity)>>, Pad(layer_label \o "_opacity"))
        final == Pad(layer_label \o "_final")
    IN  IF Len(s5.filters) > 0 /\ s5.cur # final
        THEN Append(s5.filters, Filter(<<s5.cur>>, "null", <<>>, final))
        ELSE s5.filters

(***************************************************************************)
(* Overlay position and timing.                                            *)
(***************************************************************************)
\* Python's "{d:+d}"
Signed(d) == IF d >= 0 THEN "+" \o Str(d) ELSE Str(d)

WithOffset(expr, d) == IF d # 0 THEN expr \o Signed(d) ELSE expr

\* an anchor table without a right column: those anchors fall to the centre branch
NoRight == {}

HLeft == {"top-left", "center-left", "bottom-left"}
HRight == {"top-right", "center-right", "bottom-right"}
VTop == {"top-left", "top-center", "top-right"}
VBottom == {"bottom-left", "bottom-center", "bottom-right"}

\* Composition._calculate_overlay_position: the x and y parameters of the overlay
_calculate_overlay_position(layer, canvas_width, canvas_height) ==
    LET anchor == layer.anchor
        dx == layer.dx
        dy == layer.dy
    IN  IF ~IsNone(layer.x_expr) /\ Val(layer.x_expr) # ""
           /\ ~IsNone(layer.y_expr) /\ Val(layer.y_expr) # ""
        THEN <<"x='" \o Val(layer.x_expr) \o "'", "y='" \o Val(layer.y_expr) \o "'">>
        ELSE IF layer.size.mode = "canvas_percent"
        THEN LET t == _calculate_target_dimensions(layer.size, canvas_width, canvas_height)
                 tw == Str(t.w)
                 th == Str(t.h)
                 bx == IF anchor \in HLeft THEN WithOffset("0", dx)
                       ELSE IF anchor \in HRight THEN WithOffset("W-" \o tw, dx)
                       ELSE WithOffset("(W-" \o tw \o ")/2", dx)
                 by == IF anchor \in VTop THEN WithOffset("0", dy)
                       ELSE IF anchor \in VBottom THEN WithOffset("H-" \o th, dy)
                       ELSE WithOffset("(H-" \o th \o ")/2", dy)
                 x_expr == IF anchor \in HRight THEN "(" \o bx \o ")+(" \o tw \o "-w)"
                           ELSE IF anchor \in {"top-center", "center", "bottom-center"}
                           THEN "(" \o bx \o ")+(" \o tw \o "-w)/2"
                           ELSE bx
                 y_expr == IF anchor \in VBottom THEN "(" \o by \o ")+(" \o th \o "-h)"
                           ELSE IF anchor \in {"center-left", "center", "center-right"}
                           THEN "(" \o by \o ")+(" \o th \o "-h)/2"
                           ELSE by
             IN  <<"x='" \o x_expr \o "'", "y='" \o y_expr \o "'">>
        ELSE LET x_expr == IF anchor \in HLeft THEN WithOffset("0", dx)
                           ELSE IF anchor \in HRight THEN WithOffset("W-w", dx)
                           ELSE WithOffset("(W-w)/2", dx)
                 y_expr == IF anchor \in VTop THEN WithOffset("0", dy)
                           ELSE IF anchor \in VBottom THEN WithOffset("H-h", dy)
                           ELSE WithOffset("(H-h)/2", dy)
             IN  <<"x='" \o x_expr \o "'", "y='" \o y_expr \o "'">>

\* Composition._get_overlay_timing_enable: the enable parameter of a layer's window,
\* "" when the layer is always shown.  No caller in _build_ffmpeg_argv.
_get_overlay_timing_enable(layer) ==
    LET start_time == IF ~IsNone(layer.comp_start) THEN Val(layer.comp_start) ELSE 0
        end_time == IF ~IsNone(layer.comp_end) THEN layer.comp_end
                    ELSE IF ~IsNone(layer.comp_duration)
                    THEN Some(start_time + Val(layer.comp_duration))
                    ELSE None
    IN  IF ~IsNone(end_time)
        THEN "enable='between(t," \o Str(start_time) \o "," \o Str(Val(end_time)) \o ")'"
        ELSE IF start_time > 0
        THEN "enable='gte(t," \o Str(start_time) \o ")'"
        ELSE ""

\* the overlay parameters _build_ffmpeg_argv emits for a layer
overlay_params(layer, canvas_width, canvas_height) ==
    _calculate_overlay_position(layer, canvas_width, canvas_height) \o <<"eof_action=pass">>

(***************************************************************************)
(* sorted(enumerate(self._layers), key=z): the 1-based positions of the    *)
(* layers in ascending z, ties in insertion order (the sort is stable).    *)
(***************************************************************************)
Before(ls, i, j) == ls[i].z < ls[j].z \/ (ls[i].z = ls[j].z /\ i < j)

\* the layers taken in insertion order, whatever their z
InsertionOrder(ls) == [k \in 1..Len(ls) |-> k]

\* sorted(enumerate(self._layers), key=z): positions of the layers, stable
sorted_layers(ls) ==
    [k \in 1..Len(ls) |->
        CHOOSE i \in 1..Len(ls) :
            Cardinality({j \in 1..Len(ls) : Before(ls, j, i)}) = k - 1]

(***************************************************************************)
(* _build_ffmpeg_argv, stage by stage.                                     *)
(***************************************************************************)
\* the background's slot instead of the highest slot in use
FirstSlot(input_map) == input_map["background"]

MaxSlot(input_map) ==
    CHOOSE m \in {input_map[k] : k \in DOMAIN input_map} :
        \A k \in DOMAIN input_map : input_map[k] <= m

\* the loop over self._layers that adds the inputs and collects the audio inputs
RECURSIVE AddLayerInputs(_, _, _, _)
AddLayerInputs(ls, i, acc, support) ==
    IF i > Len(ls) \/ ~acc.ok THEN acc
    ELSE
    LET layer == ls[i]
        r == get_ffmpeg_inputs(layer.fg, acc.input_idx, i - 1, support,
                               get_source_trim_args(layer))
    IN  IF ~r.ok THEN [acc EXCEPT !.ok = FALSE, !.spawns = @ + r.spawns]
        ELSE
        LET input_map == r.map @@ acc.input_map
            audio == IF layer.audio_enabled /\ r.audio_input_key # ""
                        /\ r.audio_input_key \in DOMAIN input_map
                     THEN <<[input |-> AudioStream(input_map[r.audio_input_key]),
                             volume |-> layer.audio_volume,
                             type |-> "foreground",
                             layer_index |-> Some(i - 1)]>>
                     ELSE <<>>
        IN  AddLayerInputs(ls, i + 1,
                [ok |-> TRUE,
                 args |-> acc.args \o r.args,
                 input_map |-> input_map,
                 input_idx |-> MaxSlot(input_map) + 1,
                 audio_inputs |-> acc.audio_inputs \o audio,
                 spawns |-> acc.spawns + r.spawns],
                support)

\* the loop over sorted_layers that builds the video filter graph
RECURSIVE VideoGraph(_, _, _, _, _, _, _)
VideoGraph(ls, order, k, input_map, canvas, filter_parts, current_output) ==
    IF k > Len(order) THEN filter_parts
    ELSE
    LET pos == order[k]
        original_idx == pos - 1
        layer == ls[pos]
        layer_label == LayerKey(original_idx)
        format_filters == get_ffmpeg_filters(layer.fg, layer_label, input_map,
                                             layer.alpha_enabled)
        fmt_output == IF Len(format_filters) > 0
                      THEN get_current_input_label(layer.fg, layer_label, layer.alpha_enabled)
                      ELSE VideoPad(input_map[layer_label])
        transformation_filters ==
            _get_layer_transformation_filters(layer, original_idx, fmt_output,
                                              canvas.width, canvas.height)
        layer_output == IF Len(transformation_filters) > 0
                        THEN Pad(layer_label \o "_final")
                        ELSE fmt_output
        params == overlay_params(layer, canvas.width, canvas.height)
        out == IF k = Len(order) THEN "[out]" ELSE "[tmp" \o Str(k - 1) \o "]"
    IN  VideoGraph(ls, order, k + 1, input_map, canvas,
                   filter_parts \o format_filters \o transformation_filters
                     \o <<Filter(<<current_output, layer_output>>, "overlay", params, out)>>,
                   out)

\* the background's entry in audio_inputs
BackgroundAudio(bg, input_map) ==
    IF ~IsNone(bg) /\ Val(bg).audio_enabled /\ has_audio(Val(bg))
    THEN <<[input |-> AudioStream(input_map["background"]),
            volume |-> Val(bg).audio_volume,
            type |-> "background",
            layer_index |-> None]>>
    ELSE <<>>

Delay(comp_start) == Str(comp_start * 1000) \o "|" \o Str(comp_start * 1000)

Positive(o) == ~IsNone(o) /\ Val(o) > 0

\* the single-source branch: filters and the audio map
SingleAudio(ls, audio_input) ==
    LET layer_idx == IF IsNone(audio_input.layer_index) THEN 0
                     ELSE Val(audio_input.layer_index)
        comp_start == IF audio_input.type = "foreground" /\ layer_idx < Len(ls)
                      THEN ls[layer_idx + 1].comp_start ELSE None
        needs_delay == Positive(comp_start)
        raw == Pad(audio_input.input)
        d == IF needs_delay
             THEN <<Filter(<<raw>>, "adelay", <<Delay(Val(comp_start))>>, "[audio_delayed]")>>
             ELSE <<>>
        cur == IF needs_delay THEN "[audio_delayed]" ELSE raw
        v == IF audio_input.volume # 100
             THEN <<Filter(<<cur>>, "volume", <<Str(audio_input.volume)>>, "[audio_out]")>>
             ELSE IF cur # "[audio_out]"
             THEN <<Filter(<<cur>>, "anull", <<>>, "[audio_out]")>>
             ELSE <<>>
    IN  IF needs_delay \/ audio_input.volume # 100
        THEN [filters |-> d \o v, map |-> <<"-map", "[audio_out]">>]
        ELSE [filters |-> <<>>, map |-> <<"-map", audio_input.input \o "?">>]

\* a loop that takes the timing of the layer at the entry's own position
EntryPosition(audio_input, i) == i

\* the layer whose timing the multi-source loop applies to entry i (0-based) of
\* audio_inputs: audio_input.get("layer_index", i)
MixLayerIndex(audio_input, i) ==
    IF IsNone(audio_input.layer_index) THEN i ELSE Val(audio_input.layer_index)

\* one iteration of the multi-source loop: the filters added and the processed label
MixEntry(ls, audio_input, i) ==
    LET layer_idx == MixLayerIndex(audio_input, i)
        raw == Pad(audio_input.input)
    IN  IF layer_idx < Len(ls)
        THEN LET comp_start == ls[layer_idx + 1].comp_start
                 delayed == Positive(comp_start)
                 dl == "[audio_delayed_" \o Str(i) \o "]"
                 d == IF delayed
                      THEN <<Filter(<<raw>>, "adelay", <<Delay(Val(comp_start))>>, dl)>>
                      ELSE <<>>
                 cur == IF delayed THEN dl ELSE raw
                 vl == "[audio_vol_" \o Str(i) \o "]"
             IN  IF audio_input.volume # 100
                 THEN [filters |-> d \o <<Filter(<<cur>>, "volume",
                                                 <<Str(audio_input.volume)>>, vl)>>,
                       label |-> vl]
                 ELSE [filters |-> d, label |-> cur]
        ELSE LET vl == "[audio_vol_" \o Str(i) \o "]"
             IN  IF audio_input.volume # 100
                 THEN [filters |-> <<Filter(<<raw>>, "volume",
                                            <<Str(audio_input.volume)>>, vl)>>,
                       label |-> vl]
                 ELSE [filters |-> <<>>, label |-> raw]

RECURSIVE MixLoop(_, _, _, _, _)
MixLoop(ls, audio_inputs, n, filters, processed) ==
    IF n > Len(audio_inputs)
    THEN Append(filters,
                Filter(processed, "amix",
                       <<"inputs=" \o Str(Len(processed)), "duration=longest">>,
                       "[audio_out]"))
    ELSE LET e == MixEntry(ls, audio_inputs[n], n - 1)
         IN  MixLoop(ls, audio_inputs, n + 1, filters \o e.filters,
                     Append(processed, e.label))

\* a faulty variant of AudioGraph: a single source is sent through the mix too
AlwaysMix(ls, audio_inputs) ==
    IF Len(audio_inputs) = 0 THEN [filters |-> <<>>, map |-> <<"-an">>]
    ELSE [filters |-> MixLoop(ls, audio_inputs, 1, <<>>, <<>>),
          map |-> <<"-map", "[audio_out]">>]

\* the audio graph: no source, one source, or the mix
AudioGraph(ls, audio_inputs) ==
    IF Len(audio_inputs) = 0 THEN [filters |-> <<>>, map |-> <<"-an">>]
    ELSE IF Len(audio_inputs) = 1 THEN SingleAudio(ls, audio_inputs[1])
    ELSE [filters |-> MixLoop(ls, audio_inputs, 1, <<>>, <<>>),
          map |-> <<"-map", "[audio_out]">>]

\* a filter as the text the code builds for it, and ";".join(all_filter_parts)
RECURSIVE Join(_, _)
Join(parts, sep) ==
    IF Len(parts) = 0 THEN ""
    ELSE IF Len(parts) = 1 THEN parts[1]
    ELSE parts[1] \o sep \o Join(Tail(parts), sep)

FilterText(f) ==
    Join(f.ins, "") \o f.op
      \o (IF Len(f.args) > 0 THEN "=" \o Join(f.args, ":") ELSE "") \o f.out

FilterComplex(all_filter_parts) ==
    Join([i \in 1..Len(all_filter_parts) |-> FilterText(all_filter_parts[i])], ";")

\* EncoderProfile.args for EncoderProfile.h264(), the profile dry_run uses
EncoderArgs(out_path) ==
    <<"-c:v", "libx264", "-crf", "18", "-preset", "medium", "-pix_fmt", "yuv420p", out_path>>

NoResult ==
    [status |-> "none", argv |-> <<>>, video_filters |-> <<>>, audio_filters |-> <<>>,
     input_map |-> <<>>, audio_inputs |-> <<>>, spawns |-> 0, repeated |-> FALSE]

\* Composition._build_ffmpeg_argv(out_path, EncoderProfile.h264(), to_pipe=False)
_build_ffmpeg_argv(bg, ls, hint, explicit, support, out_path) ==
    LET size == _get_canvas_size(bg, hint)
    IN  IF IsNone(size) THEN [NoResult EXCEPT !.status = "RuntimeError"]
        ELSE
        LET canvas == Val(size)
            bgin == BgInputArgs(bg, canvas, support)
            alloc == AddLayerInputs(ls, 1,
                        [ok |-> TRUE, args |-> <<"ffmpeg", "-y">> \o bgin.args,
                         input_map |-> ("background" :> 0), input_idx |-> 1,
                         audio_inputs |-> <<>>, spawns |-> bgin.spawns],
                        support)
        IN  IF ~alloc.ok
            THEN [NoResult EXCEPT !.status = "ValueError", !.spawns = alloc.spawns]
            ELSE
            LET input_map == alloc.input_map
                video_filter_parts ==
                    VideoGraph(ls, sorted_layers(ls), 1, input_map, canvas, <<>>,
                               VideoPad(input_map["background"]))
                video_map_args == IF Len(video_filter_parts) > 0
                                  THEN <<"-map", "[out]">>
                                  ELSE <<"-map", Str(input_map["background"]) \o ":v">>
                audio_inputs == alloc.audio_inputs \o BackgroundAudio(bg, input_map)
                audio == AudioGraph(ls, audio_inputs)
                comp_duration == _get_composition_duration(bg, ls, explicit)
                encoder_args == EncoderArgs(out_path)
            IN  [status |-> "ok",
                 argv |-> alloc.args
                          \o (IF Len(video_filter_parts) + Len(audio.filters) > 0
                              THEN <<"-filter_complex",
                                     FilterComplex(video_filter_parts \o audio.filters)>>
                              ELSE <<>>)
                          \o video_map_args
                          \o audio.map
                          \o (IF ~IsNone(comp_duration) /\ Val(comp_duration) # 0
                              THEN <<"-t", Str(Val(comp_duration))>> ELSE <<>>)
                          \o SubSeq(encoder_args, 1, Len(encoder_args) - 1)
                          \o <<encoder_args[Len(encoder_args)]>>,
                 video_filters |-> video_filter_parts,
                 audio_filters |-> audio.filters,
                 input_map |-> input_map,
                 audio_inputs |-> audio_inputs,
                 spawns |-> alloc.spawns,
                 repeated |-> FALSE]

(***************************************************************************)
(* State after construction: Composition(background), no layers, no hint,  *)
(* no explicit duration; no export in progress.                            *)
(***************************************************************************)
Idle == [pc |-> "idle", verbose |-> FALSE, on_progress |-> FALSE, progress |-> <<>>,
         spawned |-> 0, stderr |-> "", error |-> <<>>]

\* built: the call, how its probe and the call itself ended, its arguments, the
\* instance it was called on as the call left it, and the instance it returned
NotBuilt ==
    [call |-> "none", probe_failed |-> FALSE, status |-> "ok", fallback |-> FALSE,
     args |-> <<>>, receiver |-> None, result |-> None]

\* client: no wait call was made yet and the clock is at 0.  polled are the
\* statuses the status requests returned, reported the arguments on_status got
NotWaiting ==
    [pc |-> "idle", poll_seconds |-> 0, timeout |-> None, on_status |-> FALSE,
     start_time |-> 0, now |-> 0, last_status |-> None,
     polled |-> <<>>, reported |-> <<>>, result |-> None]

\* importer: remove_background was not called yet.  calls are the requests made
\* so far, in order
NotImporting ==
    [pc |-> "idle", kind |-> "file", public_url_ok |-> FALSE, calls |-> <<>>,
     error |-> None, downloaded |-> FALSE]

Constructed(bg) ==
    /\ background = bg
    /\ layers = <<>>
    /\ canvas_hint = None
    /\ explicit_duration = None
    /\ compiled = NoResult
    /\ run = Idle
    /\ edits = 0
    /\ built = NotBuilt
    /\ client = NotWaiting
    /\ importer = NotImporting

\* calls are synchronous: nothing else runs while to_file waits for the process
Ready == run.pc # "running"

Mutated == compiled' = NoResult

(***************************************************************************)
(* Composition methods.                                                    *)
(***************************************************************************)
\* Composition.set_canvas
set_canvas(width, height, fps) ==
    /\ Ready
    /\ canvas_hint' = Some([width |-> width, height |-> height, fps |-> fps])
    /\ Mutated
    /\ UNCHANGED <<background, layers, explicit_duration, webm_support, run>>

\* Composition.set_duration
set_duration(seconds) ==
    /\ Ready
    /\ explicit_duration' = Some(seconds)
    /\ Mutated
    /\ UNCHANGED <<background, layers, canvas_hint, webm_support, run>>

\* Composition.add
add(fg) ==
    /\ Ready
    /\ Len(layers) < MaxLayers
    /\ layers' = Append(layers, NewLayer(fg, Len(layers)))
    /\ Mutated
    /\ UNCHANGED <<background, canvas_hint, explicit_duration, webm_support, run>>

(***************************************************************************)
(* Building a source and handing it to the composition.  p is what ffprobe *)
(* did on the source; built records the factory call and how it ended.     *)
(***************************************************************************)
ProbeFailed(p) == p.timed_out \/ p.returncode # 0 \/ ~p.well_formed \/ ~p.video_stream

Built(call, p, status, fallback) ==
    [NotBuilt EXCEPT !.call = call, !.probe_failed = ProbeFailed(p), !.status = status,
                     !.fallback = fallback]

Called(call, args, receiver, result) ==
    [NotBuilt EXCEPT !.call = call, !.args = args, !.receiver = Some(receiver),
                     !.result = Some(result)]

\* comp.add(Foreground.from_webm_vp9(path)) and comp.add(Foreground.from_mov_prores(path))
add_probed(format, path, p) ==
    LET info == _probe_video_info(path, p)
    IN  /\ add(IF format = "webm_vp9" THEN from_webm_vp9(path, info.duration)
                                      ELSE from_mov_prores(path, info.duration))
        /\ built' = Built("Foreground." \o format, p, "ok", info.fallback)

\* comp.background(Background.from_video(path)): the dimension probe runs first and
\* raises, so the composition is reached only when it succeeded
background_from_video(path, p) ==
    LET dims == _probe_video_dimensions(p)
        info == _probe_video_info(path, p)
    IN  /\ Ready
        /\ IF dims.status # "ok"
           THEN /\ built' = Built("Background.from_video", p, dims.status, FALSE)
                /\ UNCHANGED <<background, compiled>>
           ELSE /\ built' = Built("Background.from_video", p, "ok", info.fallback)
                /\ background' = Some(from_video(path, dims.width, dims.height, dims.fps,
                                                 info.duration, info.audio_stream,
                                                 info.needs_vp9))
                /\ Mutated
        /\ UNCHANGED <<layers, canvas_hint, explicit_duration, webm_support, run>>

\* comp.background(bg.audio(enabled, volume)) on the composition's own background:
\* audio() builds a new instance and assigns nothing to self
background_audio(enabled, volume) ==
    /\ Ready
    /\ ~IsNone(background)
    /\ LET self == Val(background)
           new_instance == BgAudio(self, enabled, volume)
       IN  /\ background' = Some(new_instance)
           /\ built' = Called("Background.audio", <<enabled, volume>>, self, new_instance)
    /\ Mutated
    /\ UNCHANGED <<layers, canvas_hint, explicit_duration, webm_support, run>>

\* comp.background(bg.subclip(start, end)) on the composition's own video background
background_subclip(start, end) ==
    /\ Ready
    /\ ~IsNone(background)
    /\ Val(background).kind = "video"
    /\ LET self == Val(background)
           new_bg == BgSubclip(self, start, end)
       IN  /\ background' = Some(new_bg)
           /\ built' = Called("VideoBackground.subclip", <<start, end>>, self, new_bg)
    /\ Mutated
    /\ UNCHANGED <<layers, canvas_hint, explicit_duration, webm_support, run>>

\* comp.add(fg.subclip(start, end))
add_subclip(fg, start, end) ==
    LET new_fg == FgSubclip(fg, start, end)
    IN  /\ add(new_fg)
        /\ built' = Called("Foreground.subclip", <<start, end>>, fg, new_fg)

(***************************************************************************)
(* LayerHandle methods; i is the handle's layer (1-based position).        *)
(***************************************************************************)
\* a handle that always writes to the first layer
HandleFirst(i, layer) ==
    /\ Ready
    /\ i \in 1..Len(layers)
    /\ layers' = [layers EXCEPT ![1] = layer]
    /\ Mutated
    /\ UNCHANGED <<background, canvas_hint, explicit_duration, webm_support, run>>

Handle(i, layer) ==
    /\ Ready
    /\ i \in 1..Len(layers)
    /\ layers' = [layers EXCEPT ![i] = layer]
    /\ Mutated
    /\ UNCHANGED <<background, canvas_hint, explicit_duration, webm_support, run>>

h_at(i, anchor, dx, dy) ==
    i \in 1..Len(layers)
    /\ Handle(i, [layers[i] EXCEPT !.anchor = anchor, !.dx = dx, !.dy = dy])

h_xy(i, x_expr, y_expr) ==
    i \in 1..Len(layers)
    /\ Handle(i, [layers[i] EXCEPT !.x_expr = Some(x_expr), !.y_expr = Some(y_expr)])

h_size(i, mode, width, height, percent, scale) ==
    i \in 1..Len(layers)
    /\ Handle(i, [layers[i] EXCEPT !.size = [mode |-> mode, width |-> width,
                                             height |-> height, percent |-> percent,
                                             scale |-> scale]])

h_opacity(i, alpha) ==
    i \in 1..Len(layers) /\ Handle(i, [layers[i] EXCEPT !.opacity = Clamp01(alpha)])

h_rotate(i, degrees) ==
    i \in 1..Len(layers) /\ Handle(i, [layers[i] EXCEPT !.rotate = degrees])

h_crop(i, x, y, w, h) ==
    i \in 1..Len(layers)
    /\ Handle(i, [layers[i] EXCEPT !.crop = Some([x |-> x, y |-> y, w |-> w, h |-> h])])

h_start(i, seconds) ==
    i \in 1..Len(layers) /\ Handle(i, [layers[i] EXCEPT !.comp_start = Some(seconds)])

h_end(i, seconds) ==
    i \in 1..Len(layers) /\ Handle(i, [layers[i] EXCEPT !.comp_end = Some(seconds)])

h_duration(i, seconds) ==
    i \in 1..Len(layers) /\ Handle(i, [layers[i] EXCEPT !.comp_duration = Some(seconds)])

\* LayerHandle.subclip: stores the range on the layer dict
h_subclip(i, start, end) ==
    i \in 1..Len(layers)
    /\ Handle(i, [layers[i] EXCEPT !.source_trim = Some([start |-> start, end |-> end])])

h_audio(i, enabled, volume) ==
    i \in 1..Len(layers)
    /\ Handle(i, [layers[i] EXCEPT !.audio_enabled = enabled,
                                   !.audio_volume = Clamp01(volume)])

h_z(i, index) ==
    i \in 1..Len(layers) /\ Handle(i, [layers[i] EXCEPT !.z = index])

h_alpha(i, enabled) ==
    i \in 1..Len(layers) /\ Handle(i, [layers[i] EXCEPT !.alpha_enabled = enabled])

(***************************************************************************)
(* Compilation and export.                                                 *)
(***************************************************************************)
\* a faulty variant of dry_run: the layers are put in z-order in place
SortingDryRun ==
    /\ Ready
    /\ compiled' = [_build_ffmpeg_argv(background, layers, canvas_hint, explicit_duration,
                                       webm_support, "OUT.mp4")
                    EXCEPT !.repeated = compiled.status # "none"]
    /\ layers' = [k \in 1..Len(layers) |-> layers[sorted_layers(layers)[k]]]
    /\ UNCHANGED <<background, canvas_hint, explicit_duration, webm_support, run>>

\* Composition.dry_run: builds the argument vector and joins it for display
dry_run ==
    /\ Ready
    /\ compiled' = [_build_ffmpeg_argv(background, layers, canvas_hint, explicit_duration,
                                       webm_support, "OUT.mp4")
                    EXCEPT !.repeated = compiled.status # "none"]
    /\ UNCHANGED <<background, layers, canvas_hint, explicit_duration, webm_support, run>>

\* Composition.to_file up to the point where _run waits for the process: the
\* vector is built (an error propagates), the process is started and, in normal
\* mode, the callback is told "processing"
to_file(on_progress, verbose) ==
    /\ Ready
    /\ LET r == _build_ffmpeg_argv(background, layers, canvas_hint, explicit_duration,
                                   webm_support, "out.mp4")
       IN  IF r.status # "ok"
           THEN run' = [pc |-> "raised", verbose |-> verbose, on_progress |-> on_progress,
                        progress |-> <<>>, spawned |-> 0, stderr |-> "",
                        error |-> <<r.status>>]
           ELSE run' = [pc |-> "running", verbose |-> verbose, on_progress |-> on_progress,
                        progress |-> IF ~verbose /\ on_progress
                                     THEN <<"processing">> ELSE <<>>,
                        spawned |-> 1, stderr |-> "", error |-> <<>>]
    /\ UNCHANGED <<background, layers, canvas_hint, explicit_duration, webm_support,
                   compiled>>

\* Composition._run after process.wait() / communicate(): the process has
\* written stderr and returned returncode.  A non-zero return code raises a
\* RuntimeError, which the except clause wraps into another one; otherwise the
\* callback is told "completed".  The error is the sequence of the parts of its
\* message: verbose mode leaves the process's output on the terminal and formats
\* the return code, normal mode formats the captured stderr.
process_exit(returncode, stderr) ==
    /\ run.pc = "running"
    /\ IF returncode # 0
       THEN run' = [run EXCEPT
                       !.pc = "failed",
                       !.stderr = stderr,
                       !.error = IF run.verbose
                                 THEN <<"FFmpeg execution failed: ",
                                        "FFmpeg failed with return code: ", Str(returncode)>>
                                 ELSE <<"FFmpeg execution failed: ", "FFmpeg failed: ",
                                        stderr>>]
       ELSE run' = [run EXCEPT !.pc = "done",
                               !.stderr = stderr,
                               !.progress = IF run.on_progress
                                            THEN Append(@, "completed") ELSE @]
    /\ UNCHANGED <<background, layers, canvas_hint, explicit_duration, webm_support,
                   compiled>>

(***************************************************************************)
(* VideoBGRemoverClient.wait (client/api.py).  Time is in whole units; a   *)
(* status request takes latency units and returns one of the five job      *)
(* states of JobStatus.status.                                             *)
(***************************************************************************)
JobState == {"created", "uploaded", "processing", "completed", "failed"}

\* a loop that never tests the timeout
Unlimited(o) == FALSE

\* Python's truthiness of an Optional[float]: None and 0 are false
Truthy(o) == ~IsNone(o) /\ Val(o) # 0

\* wait(job_id, poll_seconds, timeout, on_status) up to the loop
wait(poll_seconds, timeout, on_status) ==
    /\ client.pc = "idle"
    /\ client' = [client EXCEPT !.pc = "polling", !.poll_seconds = poll_seconds,
                                !.timeout = timeout, !.on_status = on_status,
                                !.start_time = client.now, !.last_status = None]

\* one iteration of wait's loop: the status request, answered with status after
\* latency, the two terminal tests, the timeout test, the callback and the sleep
poll(status, latency) ==
    /\ client.pc = "polling"
    /\ Len(client.polled) < MaxPolls
    /\ LET time == client.now + latency
           asked == [client EXCEPT !.now = time, !.polled = Append(@, status)]
           changed == client.on_status /\ Some(status) # client.last_status
       IN  client' =
             IF status = "completed"
             THEN [asked EXCEPT !.pc = "returned", !.result = Some(status)]
             ELSE IF status = "failed"
             THEN [asked EXCEPT !.pc = "ProcessingError"]
             ELSE IF Truthy(client.timeout) /\ time - client.start_time > Val(client.timeout)
             THEN [asked EXCEPT !.pc = "TimeoutError"]
             ELSE [asked EXCEPT !.reported = IF changed THEN Append(@, status) ELSE @,
                                !.last_status = IF changed THEN Some(status) ELSE @,
                                !.now = time + client.poll_seconds]

(***************************************************************************)
(* Importer.remove_background (media/_importer_internal.py).  Every        *)
(* request either succeeds (ok) or raises; calls logs the requests made,   *)
(* each with its outcome.  _choose_format makes no request.                *)
(***************************************************************************)
Request(name, ok) == [name |-> name, ok |-> ok]

\* a job creation that takes the URL path for every URL, reachable or not
UrlAlways(kind, public_url_ok) == kind = "url"

\* _create_job: video.kind == "url" and self._public_url_ok(...)
use_url_download(kind, public_url_ok) == kind = "url" /\ public_url_ok

\* remove_background(video, ...) up to _create_job
remove_background(kind) ==
    /\ importer.pc = "idle"
    /\ importer' = [importer EXCEPT !.pc = "_create_job", !.kind = kind]

\* _create_job up to the upload: the accessibility check of a URL (answered
\* public_url_ok) and the request that creates the job
_create_job(public_url_ok, ok) ==
    /\ importer.pc = "_create_job"
    /\ LET checked == importer.kind = "url" /\ public_url_ok
           url == use_url_download(importer.kind, public_url_ok)
           name == IF url THEN "create_job_url" ELSE "create_job_file"
       IN  importer' =
             [importer EXCEPT !.public_url_ok = checked,
                              !.calls = Append(@, Request(name, ok)),
                              !.pc = IF ~ok THEN "raised"
                                     ELSE IF url THEN "start_job" ELSE "_signed_put",
                              !.error = IF ok THEN None ELSE Some("ApiError")]

\* _signed_put: opens video.src as a local file and PUTs it; the source of a
\* "url" video is no local file, so its upload always raises
_signed_put(ok) ==
    /\ importer.pc = "_signed_put"
    /\ LET done == ok /\ importer.kind = "file"
       IN  importer' =
             [importer EXCEPT !.calls = Append(@, Request("_signed_put", done)),
                              !.pc = IF done THEN "start_job" ELSE "raised",
                              !.error = IF done THEN None ELSE Some("RuntimeError")]

\* client.start_job and, when it succeeded, the call of client.wait without timeout
start_job(ok, wait_poll_seconds, on_status) ==
    /\ importer.pc = "start_job"
    /\ importer' = [importer EXCEPT !.calls = Append(@, Request("start_job", ok)),
                                    !.pc = IF ok THEN "wait" ELSE "raised",
                                    !.error = IF ok THEN None ELSE Some("ApiError")]
    /\ IF ok THEN wait(wait_poll_seconds, None, on_status) ELSE UNCHANGED client

\* a status request made by the wait that remove_background is in
wait_poll(status, latency) ==
    /\ importer.pc = "wait"
    /\ poll(status, latency)
    /\ importer' = [importer EXCEPT !.calls = Append(@, Request("status", TRUE))]

\* the rest of remove_background once wait is over: its exception propagates, or
\* _from_endpoint downloads status.processed_video_url (None when has_url is false)
_from_endpoint(has_url, ok) ==
    /\ importer.pc = "wait"
    /\ client.pc \in {"returned", "ProcessingError", "TimeoutError"}
    /\ importer' =
          IF client.pc # "returned"
          THEN [importer EXCEPT !.pc = "raised", !.error = Some(client.pc)]
          ELSE IF Val(client.result) # "completed" \/ ~has_url
          THEN [importer EXCEPT !.pc = "raised", !.error = Some("RuntimeError")]
          ELSE [importer EXCEPT !.calls = Append(@, Request("download", ok)),
                                !.pc = IF ok THEN "returned" ELSE "raised",
                                !.error = IF ok THEN None ELSE Some("RuntimeError"),
                                !.downloaded = ok]

(***************************************************************************)
(* Inputs the specifications draw from.                                    *)
(***************************************************************************)
ColorBg == from_color("#00FF00", 1920, 1080, 30)
VideoBg == from_video("bg.mp4", 1920, 1080, 30, Some(12), TRUE, FALSE)
SilentVideoBg == from_video("bg.mp4", 1920, 1080, 30, Some(12), FALSE, FALSE)

WebmFg == from_webm_vp9("fg.webm", Some(5))
MovFg == from_mov_prores("fg.mov", Some(9))
BundleFg == from_video_and_mask("color.webm", "alpha.mp4", Some("audio.m4a"), Some(9))
StackedFg == from_stacked_video("stacked.mp4", None)
ArchiveFg == from_png_sequence("fg.zip")

Layer == 1..MaxLayers

(***************************************************************************)
(* Spec: the layer builder.  Any Composition of up to MaxLayers layers on  *)
(* which up to MaxEdits LayerHandle calls were made, compiled by dry_run.  *)
(***************************************************************************)
Edited == edits < MaxEdits /\ edits' = edits + 1 /\ UNCHANGED <<built, apiVars>>

Init ==
    /\ webm_support = TRUE
    /\ \E bg \in {ColorBg, VideoBg} : Constructed(Some(bg))

Add == UNCHANGED <<edits, built, apiVars>> /\ \E fg \in {WebmFg, BundleFg} : add(fg)
At == Edited /\ \E i \in Layer, a \in {"top-left", "bottom-right"} : h_at(i, a, -50, 0)
Xy == Edited /\ \E i \in Layer : h_xy(i, "10", "main_h-overlay_h")
Size ==
    Edited /\ \E i \in Layer :
               \/ h_size(i, "cover", None, None, None, None)
               \/ h_size(i, "scale", None, None, None, Some(2))
Opacity == Edited /\ \E i \in Layer : h_opacity(i, 50)
Rotate == Edited /\ \E i \in Layer : h_rotate(i, 90)
Crop == Edited /\ \E i \in Layer : h_crop(i, 0, 0, 100, 100)
Start == Edited /\ \E i \in Layer, t \in {0, 3} : h_start(i, t)
End == Edited /\ \E i \in Layer : h_end(i, 8)
Duration == Edited /\ \E i \in Layer : h_duration(i, 4)
Subclip == Edited /\ \E i \in Layer, e \in {None, Some(4)} : h_subclip(i, 1, e)
Audio == Edited /\ \E i \in Layer : h_audio(i, FALSE, 100)
Z == Edited /\ \E i \in Layer, z \in {-1, 0} : h_z(i, z)
Alpha == Edited /\ \E i \in Layer : h_alpha(i, FALSE)
DryRun == UNCHANGED <<edits, built, apiVars>> /\ dry_run

Next ==
    \/ Add
    \/ At
    \/ Xy
    \/ Size
    \/ Opacity
    \/ Rotate
    \/ Crop
    \/ Start
    \/ End
    \/ Duration
    \/ Subclip
    \/ Audio
    \/ Z
    \/ Alpha
    \/ DryRun

Spec == Init /\ [][Next]_vars

(***************************************************************************)
(* SpecSize: sizing.  Every size mode on every layer of a composition of   *)
(* up to MaxLayers layers over a colour background.                        *)
(***************************************************************************)
InitSize ==
    /\ webm_support = TRUE
    /\ Constructed(Some(ColorBg))

SizeAdd == UNCHANGED <<edits, built, apiVars>> /\ \E fg \in {MovFg, StackedFg} : add(fg)
Resize ==
    UNCHANGED <<edits, built, apiVars>> /\ \E i \in Layer :
        \/ \E m \in {"contain", "cover", "fit_width", "fit_height"} :
               h_size(i, m, None, None, None, None)
        \/ h_size(i, "px", Some(640), Some(360), None, None)
        \/ h_size(i, "canvas_percent", None, None, Some(50), None)
        \/ h_size(i, "scale", None, None, None, Some(2))

NextSize ==
    \/ SizeAdd
    \/ Resize
    \/ DryRun

SpecSize == InitSize /\ [][NextSize]_vars

(***************************************************************************)
(* SpecAudio: the audio graph.  Every combination of audio settings and    *)
(* start times on up to MaxLayers layers, over each kind of background     *)
(* audio.                                                                  *)
(***************************************************************************)
InitAudio ==
    /\ webm_support = TRUE
    /\ \E bg \in {ColorBg, VideoBg, SilentVideoBg, BgAudio(VideoBg, FALSE, 100),
                  BgAudio(VideoBg, TRUE, 50)} : Constructed(Some(bg))

AudioAdd == UNCHANGED <<edits, built, apiVars>> /\ \E fg \in {WebmFg, BundleFg} : add(fg)
AudioAudio == UNCHANGED <<edits, built, apiVars>> /\ \E i \in Layer, on \in BOOLEAN, v \in {50, 100} : h_audio(i, on, v)
AudioStart == UNCHANGED <<edits, built, apiVars>> /\ \E i \in Layer : h_start(i, 3)

NextAudio ==
    \/ AudioAdd
    \/ AudioAudio
    \/ AudioStart
    \/ DryRun

SpecAudio == InitAudio /\ [][NextAudio]_vars

(***************************************************************************)
(* SpecPolicy: canvas and duration resolution.  Backgrounds with and       *)
(* without usable dimensions and durations, trimmed and untrimmed sources, *)
(* the canvas hint and the explicit duration.                              *)
(***************************************************************************)
InitPolicy ==
    /\ webm_support \in BOOLEAN
    /\ \E bg \in {None, Some(ColorBg), Some(from_color("#00FF00", 0, 0, 30)),
                  Some(from_color("#00FF00", -1920, 1080, 30)),
                  Some(VideoBg), Some(BgSubclip(VideoBg, 2, Some(8))),
                  Some(from_video("bg.mp4", 1920, 1080, 30, None, TRUE, FALSE)),
                  Some(from_video("bg.mp4", 1920, 1080, 30, Some(0), TRUE, FALSE))} :
          Constructed(bg)

PolicyAdd ==
    UNCHANGED <<edits, built, apiVars>> /\ \E fg \in {WebmFg, MovFg, StackedFg, FgSubclip(MovFg, 1, Some(4))} : add(fg)
SetCanvas == UNCHANGED <<edits, built, apiVars>> /\ set_canvas(1280, 720, 25)
SetDuration == UNCHANGED <<edits, built, apiVars>> /\ \E t \in {-2, 0, 7} : set_duration(t)

NextPolicy ==
    \/ PolicyAdd
    \/ SetCanvas
    \/ SetDuration
    \/ DryRun

SpecPolicy == InitPolicy /\ [][NextPolicy]_vars

(***************************************************************************)
(* SpecRun: export.  to_file with and without a callback, verbose or not,  *)
(* on compositions that compile and that do not; the process exits with    *)
(* either kind of return code.                                             *)
(***************************************************************************)
InitRun ==
    /\ webm_support \in BOOLEAN
    /\ \E bg \in {None, Some(ColorBg)} : Constructed(bg)

RunAdd == UNCHANGED <<edits, built, apiVars>> /\ \E fg \in {WebmFg, ArchiveFg} : add(fg)
ToFile == UNCHANGED <<edits, built, apiVars>> /\ \E cb \in BOOLEAN, verbose \in BOOLEAN : to_file(cb, verbose)
ProcessExit ==
    UNCHANGED <<edits, built, apiVars>> /\ \E rc \in {0, 1}, stderr \in {"Conversion failed!", "frame= 150"} :
                          process_exit(rc, stderr)

NextRun ==
    \/ RunAdd
    \/ ToFile
    \/ ProcessExit

SpecRun == InitRun /\ [][NextRun]_vars

(***************************************************************************)
(* SpecProbe: sources built by their factories, whose probe ends in any of *)
(* the ways ffprobe can end, and the composition compiled from them.       *)
(***************************************************************************)
ProbeOk == Probe(FALSE, 0, TRUE, TRUE, Some(6))
ProbeNoDuration == Probe(FALSE, 0, TRUE, TRUE, None)
ProbeExit == Probe(FALSE, 1, TRUE, TRUE, None)
ProbeTimeout == Probe(TRUE, 0, TRUE, TRUE, None)
ProbeMalformed == Probe(FALSE, 0, FALSE, TRUE, None)
ProbeNoVideo == Probe(FALSE, 0, TRUE, FALSE, None)
Probes == {ProbeOk, ProbeNoDuration, ProbeExit, ProbeTimeout, ProbeMalformed, ProbeNoVideo}

InitProbe ==
    /\ webm_support \in BOOLEAN
    /\ Constructed(None)

ProbeAdd ==
    UNCHANGED <<edits, apiVars>> /\ \E f \in {"webm_vp9", "mov_prores"}, p \in Probes :
                          add_probed(f, IF f = "webm_vp9" THEN "fg.webm" ELSE "fg.mov", p)
ProbeBackground == UNCHANGED <<edits, apiVars>> /\ \E p \in Probes : background_from_video("bg.mp4", p)
ProbeDryRun == UNCHANGED <<edits, built, apiVars>> /\ dry_run

NextProbe ==
    \/ ProbeAdd
    \/ ProbeBackground
    \/ ProbeDryRun

SpecProbe == InitProbe /\ [][NextProbe]_vars

(***************************************************************************)
(* SpecSource: the immutable builders of the sources.  A composition on    *)
(* any kind of background, whose background is replaced by what audio()    *)
(* and subclip() return for it (volumes outside [0, 1] included), and to   *)
(* which foregrounds are added that subclip() returned, for untrimmed and  *)
(* for already trimmed originals.                                          *)
(***************************************************************************)
ImageBg == from_image("bg.png", 1280, 720, 30)
FallbackVideoBg == from_video("bg.mp4", 1280, 720, 25, None, FALSE, FALSE)

InitSource ==
    /\ webm_support = TRUE
    /\ \E bg \in {ColorBg, ImageBg, empty(640, 360, 24), VideoBg,
                  FallbackVideoBg, BgSubclip(VideoBg, 2, Some(6))} : Constructed(Some(bg))

SourceAudio ==
    UNCHANGED <<edits, apiVars>> /\ \E on \in BOOLEAN, v \in {-50, 50, 150} : background_audio(on, v)
SourceSubclip ==
    UNCHANGED <<edits, apiVars>> /\ \E end \in {None, Some(5)} : background_subclip(1, end)
SourceAddSubclip ==
    UNCHANGED <<edits, apiVars>> /\ \E fg \in {MovFg, FgSubclip(MovFg, 0, Some(2))}, end \in {None, Some(5)} :
                          add_subclip(fg, 1, end)
SourceDryRun == UNCHANGED <<edits, built, apiVars>> /\ dry_run

NextSource ==
    \/ SourceAudio
    \/ SourceSubclip
    \/ SourceAddSubclip
    \/ SourceDryRun

SpecSource == InitSource /\ [][NextSource]_vars

(***************************************************************************)
(* SpecInputs: the input section of the command.  Layers of every input    *)
(* recipe (one file, colour + mask, colour + mask + audio, stacked),       *)
(* trimmed and untrimmed, on trimmed and untrimmed backgrounds, reordered  *)
(* by z.                                                                   *)
(***************************************************************************)
SilentBundleFg == from_video_and_mask("color.mp4", "alpha.mp4", None, Some(9))

InitInputs ==
    /\ webm_support = TRUE
    /\ \E bg \in {ColorBg, VideoBg, BgSubclip(VideoBg, 2, Some(6)), BgSubclip(VideoBg, 2, None)} :
          Constructed(Some(bg))

InputsAdd ==
    UNCHANGED <<edits, built, apiVars>> /\
    \E fg \in {WebmFg, BundleFg, SilentBundleFg, StackedFg,
               FgSubclip(BundleFg, 1, Some(4)), FgSubclip(WebmFg, 1, None)} : add(fg)
InputsZ == Edited /\ \E i \in Layer : h_z(i, -1)
InputsDryRun == UNCHANGED <<edits, built, apiVars>> /\ dry_run

NextInputs ==
    \/ InputsAdd
    \/ InputsZ
    \/ InputsDryRun

SpecInputs == InitInputs /\ [][NextInputs]_vars

(***************************************************************************)
(* SpecStages: the transformation chain of a layer.  Layers on which       *)
(* start, crop, rotate and opacity were called any number of times, in any *)
(* order, with identity and non-identity values.                           *)
(***************************************************************************)
InitStages ==
    /\ webm_support = TRUE
    /\ Constructed(Some(ColorBg))

StagesAdd == UNCHANGED <<edits, built, apiVars>> /\ add(StackedFg)
StagesStart == UNCHANGED <<edits, built, apiVars>> /\ \E i \in Layer, t \in {0, 3} : h_start(i, t)
StagesCrop == UNCHANGED <<edits, built, apiVars>> /\ \E i \in Layer : h_crop(i, 10, 20, 300, 200)
StagesRotate == UNCHANGED <<edits, built, apiVars>> /\ \E i \in Layer : h_rotate(i, 90)
StagesOpacity == UNCHANGED <<edits, built, apiVars>> /\ \E i \in Layer : h_opacity(i, 50)
StagesDryRun == UNCHANGED <<edits, built, apiVars>> /\ dry_run

NextStages ==
    \/ StagesAdd
    \/ StagesStart
    \/ StagesCrop
    \/ StagesRotate
    \/ StagesOpacity
    \/ StagesDryRun

SpecStages == InitStages /\ [][NextStages]_vars

(***************************************************************************)
(* Properties of the audio graph (checked under SpecAudio).                *)
(***************************************************************************)
Compiled == compiled.status = "ok"

AudioFilters(op) == {f \in Range(compiled.audio_filters) : f.op = op}

BackgroundPad == Pad(AudioStream(compiled.input_map["background"]))

MapsAudio(target) ==
    \E k \in 1..(Len(compiled.argv) - 1) :
        compiled.argv[k] = "-map" /\ compiled.argv[k + 1] = target

\* C1: in a compiled composition no adelay filter takes the background's audio
\* stream as its input, whatever the layers' start times and audio settings.
C1_BackgroundNeverDelayed ==
    Compiled => \A f \in AudioFilters("adelay") : BackgroundPad \notin Range(f.ins)

(***************************************************************************)
(* Properties of duration and canvas resolution (checked under SpecPolicy).*)
(***************************************************************************)
\* the arguments after the last input: maps, duration clamp, encoder, output
LastInput == CHOOSE k \in 1..Len(compiled.argv) :
                 /\ compiled.argv[k] = "-i"
                 /\ \A j \in (k + 1)..Len(compiled.argv) : compiled.argv[j] # "-i"

\* the values of the output's -t option
OutputDuration ==
    {compiled.argv[k + 1] : k \in {j \in (LastInput + 1)..(Len(compiled.argv) - 1) :
                                       compiled.argv[j] = "-t"}}

ProbedDurations ==
    {Val(layers[i].fg.duration) :
        i \in {j \in 1..Len(layers) : ~IsNone(layers[j].fg.duration)
                                      /\ Val(layers[j].fg.duration) > 0}}

\* the three rules as the specification words them
RuleDuration ==
    IF ~IsNone(explicit_duration) THEN explicit_duration
    ELSE IF ~IsNone(background) /\ Val(background).kind = "video"
            /\ ~IsNone(Val(background).duration) /\ Val(Val(background).duration) > 0
    THEN Val(background).duration
    ELSE IF ProbedDurations # {}
    THEN Some(CHOOSE d \in ProbedDurations : \A e \in ProbedDurations : e <= d)
    ELSE None

Untrimmed(x) == [x EXCEPT !.source_trim = None]

UntrimmedBackground == IF IsNone(background) THEN None ELSE Some(Untrimmed(Val(background)))

UntrimmedLayers == [i \in 1..Len(layers) |-> [layers[i] EXCEPT !.fg = Untrimmed(@)]]

\* C2: the duration a compile resolves is the explicit value if one was set,
\* else the video background's positive probed duration, else the longest
\* positive probed duration of the layers' foregrounds (none if there is none);
\* the output's -t carries it unless it is zero; and it is the same as for the
\* composition with every subclip removed.
C2_DurationRules ==
    Compiled =>
        /\ _get_composition_duration(background, layers, explicit_duration) = RuleDuration
        /\ OutputDuration = (IF ~IsNone(RuleDuration) /\ Val(RuleDuration) # 0
                             THEN {Str(Val(RuleDuration))} ELSE {})
        /\ _get_composition_duration(UntrimmedBackground, UntrimmedLayers, explicit_duration)
             = _get_composition_duration(background, layers, explicit_duration)

\* C2 witness: no explicit duration, no video background, the longest foreground
\* is a trimmed one (9 s probed, 3 s kept) next to a 5 s one: the output gets -t 9
C2_Witness ==
    /\ Compiled
    /\ IsNone(explicit_duration)
    /\ ~IsNone(background) /\ Val(background).kind = "color"
    /\ \E i, j \in 1..Len(layers) :
          /\ ~IsNone(layers[i].fg.source_trim) /\ layers[i].fg.duration = Some(9)
          /\ layers[j].fg.duration = Some(5)
    /\ OutputDuration = {"9"}

\* the canvas a compiled command was built for, as far as the command shows it:
\* the size every default (contain) layer is scaled to, and the size and rate of
\* the generated colour source when the background is a colour or absent
CanvasIs(c) ==
    /\ \A f \in Range(compiled.video_filters) :
          f.op = "scale" => f.args[1] = Str(c.width) /\ f.args[2] = Str(c.height)
    /\ IsNone(background) =>
          LavfiColor("black@0.0", c.width, c.height, c.fps) \in Range(compiled.argv)
    /\ (~IsNone(background) /\ Val(background).kind = "color") =>
          LavfiColor(Val(background).source, c.width, c.height, c.fps)
             \in Range(compiled.argv)

BackgroundCanvas ==
    [width |-> Val(background).width, height |-> Val(background).height,
     fps |-> Val(background).fps]

\* C3: a compile uses the background's width, height and fps exactly when a
\* background is present and all three are positive; otherwise the set_canvas
\* hint when one was set; otherwise it fails with the configuration error and
\* produces no argument vector.
C3_CanvasPriority ==
    compiled.status # "none" =>
        IF ~IsNone(background) /\ Val(background).width > 0
           /\ Val(background).height > 0 /\ Val(background).fps > 0
        THEN Compiled /\ CanvasIs(BackgroundCanvas)
        ELSE IF ~IsNone(canvas_hint)
        THEN Compiled /\ CanvasIs(Val(canvas_hint))
        ELSE compiled.status = "RuntimeError" /\ compiled.argv = <<>>

(***************************************************************************)
(* C7: the shape of the audio graph by the number of sources.              *)
(***************************************************************************)
AudioLayers == {i \in 1..Len(layers) : layers[i].audio_enabled}

BackgroundSource ==
    ~IsNone(background) /\ Val(background).audio_enabled /\ has_audio(Val(background))

\* N: the layers with audio enabled, plus the background when it has audio enabled
\* and an audio stream
SourceCount == Cardinality(AudioLayers) + (IF BackgroundSource THEN 1 ELSE 0)

\* the stream of the only source, its volume and its layer's start
OnlyStream ==
    IF BackgroundSource THEN AudioStream(compiled.input_map["background"])
    ELSE compiled.audio_inputs[1].input

OnlyVolume ==
    IF BackgroundSource THEN Val(background).audio_volume
    ELSE layers[CHOOSE i \in AudioLayers : TRUE].audio_volume

OnlyStartsLate ==
    ~BackgroundSource /\ Positive(layers[CHOOSE i \in AudioLayers : TRUE].comp_start)

\* C7: with N audio sources, N = 0 gives -an and no audio filter; N = 1 at
\* volume 1.0 without a positive start is mapped directly ("<stream>?") with no
\* audio filter; N >= 2 gives exactly one amix with inputs=N fed by N pads, the
\* audio map is [audio_out] and no stream is mapped directly; no stream of a
\* layer with audio disabled enters the graph.
C7_AudioGraphShape ==
    Compiled =>
        /\ Len(compiled.audio_inputs) = SourceCount
        /\ SourceCount = 0 =>
              /\ "-an" \in Range(compiled.argv)
              /\ compiled.audio_filters = <<>>
        /\ (SourceCount = 1 /\ OnlyVolume = 100 /\ ~OnlyStartsLate) =>
              /\ MapsAudio(OnlyStream \o "?")
              /\ compiled.audio_filters = <<>>
              /\ "-an" \notin Range(compiled.argv)
        /\ SourceCount >= 2 =>
              /\ Cardinality({k \in 1..Len(compiled.audio_filters) :
                                 compiled.audio_filters[k].op = "amix"}) = 1
              /\ \A f \in AudioFilters("amix") :
                    /\ f.args[1] = "inputs=" \o Str(SourceCount)
                    /\ Len(f.ins) = SourceCount
                    /\ f.out = "[audio_out]"
              /\ MapsAudio("[audio_out]")
              /\ "-an" \notin Range(compiled.argv)
              /\ \A e \in Range(compiled.audio_inputs) : ~MapsAudio(e.input \o "?")
        /\ \A e \in Range(compiled.audio_inputs) :
              e.type = "foreground" => (Val(e.layer_index) + 1) \in AudioLayers

\* C7 witness: one of two layers is muted, so the mix has two inputs (the other
\* layer and the background) although three streams could carry audio
C7_Witness ==
    /\ Compiled
    /\ Len(layers) = 2 /\ Cardinality(AudioLayers) = 1 /\ BackgroundSource
    /\ \E f \in AudioFilters("amix") : f.args[1] = "inputs=2"

(***************************************************************************)
(* Properties of the compiler as a whole (checked under Spec).             *)
(***************************************************************************)
\* C4: compiling starts no external process: whatever the layers are (VP9/WebM
\* foregrounds, bundles with a .webm colour file), the number of processes a
\* dry_run has started is zero.
C4_CompileSpawnsNothing == compiled.status # "none" => compiled.spawns = 0

TableConstraint(mode) ==
    CASE mode \in {"contain", "canvas_percent"} -> Some("decrease")
      [] mode = "cover" -> Some("increase")
      [] mode \in {"px", "scale", "fit_width", "fit_height"} -> None

\* the force_original_aspect_ratio arguments of a filter
Constraints(f) ==
    {f.args[k] : k \in {j \in 1..Len(f.args) :
                           f.args[j] \in {"force_original_aspect_ratio=decrease",
                                          "force_original_aspect_ratio=increase"}}}

ScaleFilterOf(i) ==
    {f \in Range(compiled.video_filters) :
        f.op = "scale" /\ f.out = Pad(LayerKey(i - 1) \o "_scale")}

\* C6: in a compiled command the scale filter of every layer carries exactly the
\* aspect constraint the table gives for the layer's size mode: decrease for
\* contain and canvas_percent, increase for cover, none for px, scale, fit_width
\* and fit_height.
C6_AspectTable ==
    Compiled =>
        \A i \in 1..Len(layers) :
            \A f \in ScaleFilterOf(i) :
                Constraints(f) =
                    (IF IsNone(TableConstraint(layers[i].size.mode)) THEN {}
                     ELSE {"force_original_aspect_ratio="
                             \o Val(TableConstraint(layers[i].size.mode))})

(***************************************************************************)
(* C8, C9: the timeline window and the source range of a layer (checked    *)
(* under Spec).                                                            *)
(***************************************************************************)
HasWindow(layer) == ~IsNone(layer.comp_end) \/ ~IsNone(layer.comp_duration)

\* C8: in a compiled command, a layer with an end or a duration is overlaid only
\* during its window: its overlay carries enable='between(t,s,e)', with e the end
\* or, when the end is absent, s + duration.
C8_WindowHonoured ==
    Compiled =>
        \A i \in 1..Len(layers) :
            HasWindow(layers[i]) =>
                \E f \in Range(compiled.video_filters) :
                    /\ f.op = "overlay"
                    /\ _get_overlay_timing_enable(layers[i]) \in Range(f.args)

\* the command of the same composition with the window of every layer removed
WithoutWindows ==
    _build_ffmpeg_argv(background,
                       [i \in 1..Len(layers) |->
                           [layers[i] EXCEPT !.comp_end = None, !.comp_duration = None]],
                       canvas_hint, explicit_duration, webm_support, "OUT.mp4")

\* C8, second half: setting a layer's end or duration changes the compiled
\* argument vector.
C8_WindowChangesCommand ==
    (Compiled /\ \E i \in 1..Len(layers) : HasWindow(layers[i])) =>
        compiled.argv # WithoutWindows.argv

\* the arguments in front of the k-th "-i" of the command, back to the previous
\* input's file
RECURSIVE InputPositions(_, _)
InputPositions(argv, k) ==
    IF k > Len(argv) THEN <<>>
    ELSE IF argv[k] = "-i" THEN <<k>> \o InputPositions(argv, k + 1)
    ELSE InputPositions(argv, k + 1)

InputOptions(n) ==
    LET pos == InputPositions(compiled.argv, 1)
        from == IF n = 1 THEN 3 ELSE pos[n - 1] + 2
    IN  SubSeq(compiled.argv, from, pos[n] - 1)

Contains(seq, part) ==
    \E k \in 0..(Len(seq) - Len(part)) : SubSeq(seq, k + 1, k + Len(part)) = part

TrimOptions(t) ==
    <<"-ss", Str(t.start)>> \o
    (IF ~IsNone(t.end) THEN <<"-t", Str(Val(t.end) - t.start)>> ELSE <<>>)

\* C9: in a compiled command, the input of a layer on which handle.subclip(start,
\* end) was called carries -ss start and, when end is given, -t (end - start).
C9_HandleSubclipTrims ==
    Compiled =>
        \A i \in 1..Len(layers) :
            ~IsNone(layers[i].source_trim) =>
                \E n \in 1..Len(InputPositions(compiled.argv, 1)) :
                    /\ n > 1
                    /\ Contains(InputOptions(n), TrimOptions(Val(layers[i].source_trim)))

(***************************************************************************)
(* C10: the progress callback (checked under SpecRun).                     *)
(***************************************************************************)
\* C10: when a callback was passed to to_file, an export whose process exited
\* with code 0 has delivered exactly "processing" and then "completed", in verbose
\* and in normal mode alike; an export whose process exited with another code has
\* not delivered "completed".
C10_ProgressPhases ==
    run.on_progress =>
        /\ run.pc = "done" => run.progress = <<"processing", "completed">>
        /\ run.pc = "failed" => "completed" \notin Range(run.progress)

(***************************************************************************)
(* C11: export failures (checked under SpecRun).                           *)
(***************************************************************************)
\* C11: a to_file call that got as far as the export has started the process
\* exactly once; when the process returned a non-zero code the caller gets one
\* error whose message carries what the process wrote to stderr, in verbose and in
\* normal mode alike; when it returned 0 there is no error.
C11_ExportFailureSurfaces ==
    /\ run.pc \in {"running", "done", "failed"} => run.spawned = 1
    /\ run.pc = "failed" => run.stderr \in Range(run.error)
    /\ run.pc = "done" => run.error = <<>>

(***************************************************************************)
(* C12: a probe failure (non-zero exit, timeout, malformed output, no      *)
(* video stream) is never fatal: the factory call of a Foreground or of a  *)
(* video Background whose probe failed raises nothing and returns an       *)
(* instance that carries the fallback metadata.  (Checked under SpecProbe.)*)
(***************************************************************************)
C12_ProbeFailureNotFatal ==
    built.call # "none" /\ built.probe_failed => built.status = "ok" /\ built.fallback

(***************************************************************************)
(* C13: Background.audio(enabled, volume) returns a new instance whose     *)
(* audio_enabled is enabled and whose audio_volume is volume clamped to    *)
(* [0, 1]; every other attribute and the probed metadata are those of the  *)
(* original, so has_audio() and the probed duration are preserved; the     *)
(* original is left as it was.  (Checked under SpecSource.)                *)
(***************************************************************************)
OtherAttributes(bg) ==
    <<bg.kind, bg.width, bg.height, bg.fps, bg.source, bg.source_trim>>

ProbedMetadata(bg) == <<bg.duration, bg.audio_stream, bg.needs_vp9>>

C13_AudioReturnsCopy ==
    [][\A enabled \in BOOLEAN, volume \in {-50, 50, 150} :
          built'.call = "Background.audio" /\ background_audio(enabled, volume) =>
              LET original == Val(background)
                  new == Val(built'.result)
              IN  /\ new.audio_enabled = enabled
                  /\ new.audio_volume = Min2(100, Max2(0, volume))
                  /\ OtherAttributes(new) = OtherAttributes(original)
                  /\ ProbedMetadata(new) = ProbedMetadata(original)
                  /\ has_audio(new) = has_audio(original)
                  /\ get_duration(new) = get_duration(original)
                  /\ Val(built'.receiver) = original
                  /\ background' = Some(new)]_vars

\* audio() was called with a volume above 1.0 on a trimmed video background that
\* has an audio stream and a probed duration
C13_Witness ==
    /\ built.call = "Background.audio"
    /\ built.args[2] > 100
    /\ has_audio(Val(built.receiver))
    /\ ~IsNone(get_duration(Val(built.result)))
    /\ ~IsNone(Val(built.receiver).source_trim)

(***************************************************************************)
(* C14: the video graph of a compiled composition holds exactly one        *)
(* overlay per layer; the overlays come in ascending z, layers of equal z  *)
(* in insertion order; the first overlay's base is the background's video  *)
(* pad, the base of each later one is the output of the overlay before it, *)
(* and the last one writes [out].  (Checked under Spec.)                   *)
(***************************************************************************)
RECURSIVE Overlays(_, _)
Overlays(filters, k) ==
    IF k > Len(filters) THEN <<>>
    ELSE (IF filters[k].op = "overlay" THEN <<filters[k]>> ELSE <<>>)
         \o Overlays(filters, k + 1)

\* the pads a layer's own chain can end in: its last transformation stage, its
\* format stage, or its input's video stream
LayerPads(i) ==
    {Pad(LayerKey(i - 1) \o "_final"),
     get_current_input_label(layers[i].fg, LayerKey(i - 1), layers[i].alpha_enabled)}
    \cup (IF LayerKey(i - 1) \in DOMAIN compiled.input_map
          THEN {VideoPad(compiled.input_map[LayerKey(i - 1)])} ELSE {})

\* the layer an overlay puts on its base
OverlaidLayer(f) == CHOOSE i \in 1..Len(layers) : f.ins[2] \in LayerPads(i)

C14_OverlayChain ==
    Compiled =>
        LET ov == Overlays(compiled.video_filters, 1)
            n == Len(layers)
        IN  /\ Len(ov) = n
            /\ \A k \in 1..n : \E i \in 1..n : ov[k].ins[2] \in LayerPads(i)
            /\ \A i \in 1..n : \E k \in 1..n : OverlaidLayer(ov[k]) = i
            /\ \A k \in 1..n, m \in 1..n :
                  k < m =>
                      LET a == OverlaidLayer(ov[k])
                          b == OverlaidLayer(ov[m])
                      IN  \/ layers[a].z < layers[b].z
                          \/ layers[a].z = layers[b].z /\ a < b
            /\ \A k \in 1..n :
                  ov[k].ins[1] = IF k = 1 THEN VideoPad(compiled.input_map["background"])
                                          ELSE ov[k - 1].out
            /\ n > 0 => ov[n].out = "[out]"

\* two layers compiled, the later added one moved below the first by z()
C14_Witness ==
    /\ Compiled
    /\ Len(layers) = 2
    /\ layers[2].z < layers[1].z
    /\ OverlaidLayer(Overlays(compiled.video_filters, 1)[1]) = 2

(***************************************************************************)
(* C15: in a compiled command the background is input 0; the layer entries *)
(* of the name -> slot map take exactly the slots 1..K, each once, and the *)
(* slot of an entry is the 0-based position of its file's -i in the        *)
(* command; a layer takes 1 slot (one file, stacked), 2 (colour + mask) or *)
(* 3 (colour + mask + audio), consecutive, and the layers take their slots *)
(* in insertion order whatever their z.  (Checked under SpecInputs.)       *)
(***************************************************************************)
\* the entries a layer owns, in slot order, with the file each one names
LayerEntries(i) ==
    LET fg == layers[i].fg
        key == LayerKey(i - 1)
    IN  CASE fg.format = "pro_bundle" ->
               <<[key |-> key \o "_rgb", file |-> fg.primary_path],
                 [key |-> key \o "_mask", file |-> Val(fg.mask_path)]>>
               \o (IF ~IsNone(fg.audio_path)
                   THEN <<[key |-> key \o "_audio", file |-> Val(fg.audio_path)]>>
                   ELSE <<>>)
          [] fg.format = "stacked_video" ->
               <<[key |-> key \o "_stacked", file |-> fg.primary_path]>>
          [] OTHER -> <<[key |-> key, file |-> fg.primary_path]>>

RECURSIVE SlotsBefore(_)
SlotsBefore(i) == IF i = 1 THEN 1 ELSE SlotsBefore(i - 1) + Len(LayerEntries(i - 1))

C15_InputSlots ==
    Compiled =>
        LET m == compiled.input_map
            inputs == InputPositions(compiled.argv, 1)
            layer_keys == DOMAIN m \ {"background"}
            K == Cardinality(layer_keys)
        IN  /\ m["background"] = 0
            /\ {m[k] : k \in layer_keys} = 1..K
            /\ Len(inputs) = K + 1
            /\ layer_keys = UNION {{e.key : e \in Range(LayerEntries(i))} : i \in 1..Len(layers)}
            /\ \A i \in 1..Len(layers) :
                  LET entries == LayerEntries(i)
                  IN  /\ Len(entries) \in 1..3
                      /\ \A n \in 1..Len(entries) :
                            /\ m[entries[n].key] = SlotsBefore(i) + n - 1
                            /\ compiled.argv[inputs[m[entries[n].key] + 1] + 1] = entries[n].file

\* a three-slot layer followed by a two-slot layer that z puts below it
C15_Witness ==
    /\ Compiled
    /\ Len(layers) = 2
    /\ Len(LayerEntries(1)) = 3
    /\ Len(LayerEntries(2)) = 2
    /\ layers[2].z < layers[1].z
    /\ compiled.input_map[LayerKey(1) \o "_mask"] = 5

(***************************************************************************)
(* C16: a compiled command is laid out as: the tool, the overwrite flag,   *)
(* the background input, the layer inputs; then at most one                *)
(* -filter_complex, present iff a video or an audio filter was emitted;    *)
(* the video map, [out] iff there is a layer and the background's video    *)
(* stream otherwise; the audio map or -an; -t D iff the resolved duration  *)
(* D is positive; the encoder arguments; the output path last.             *)
(* (Checked under SpecPolicy.)                                             *)
(***************************************************************************)
Occurrences(argv, word) == Cardinality({k \in 1..Len(argv) : argv[k] = word})

C16_ArgvLayout ==
    Compiled =>
        LET argv == compiled.argv
            D == _get_composition_duration(background, layers, explicit_duration)
            filtered == Len(compiled.video_filters) + Len(compiled.audio_filters) > 0
            p0 == LastInput + 2
            p1 == IF filtered THEN p0 + 2 ELSE p0
            p2 == p1 + 2
            p3 == IF argv[p2] = "-an" THEN p2 + 1 ELSE p2 + 2
            p4 == IF ~IsNone(D) /\ Val(D) > 0 THEN p3 + 2 ELSE p3
        IN  /\ argv[1] = "ffmpeg" /\ argv[2] = "-y"
            /\ Occurrences(SubSeq(argv, 1, LastInput), "-i")
                 = Cardinality(DOMAIN compiled.input_map)
            /\ Occurrences(argv, "-filter_complex") = (IF filtered THEN 1 ELSE 0)
            /\ filtered => argv[p0] = "-filter_complex"
            /\ argv[p1] = "-map"
            /\ argv[p1 + 1] = (IF Len(layers) > 0 THEN "[out]"
                               ELSE Str(compiled.input_map["background"]) \o ":v")
            /\ argv[p2] \in {"-an", "-map"}
            /\ ~IsNone(D) /\ Val(D) > 0 => SubSeq(argv, p3, p3 + 1) = <<"-t", Str(Val(D))>>
            /\ SubSeq(argv, p4, Len(argv)) = EncoderArgs("OUT.mp4")
            /\ argv[Len(argv)] = "OUT.mp4"

(***************************************************************************)
(* C17: in a compiled command the filters of each layer come in the fixed  *)
(* order format-normalize, timeline shift, crop, scale, rotate, opacity,   *)
(* whatever the order of the builder calls; the timeline shift is emitted  *)
(* iff start > 0, the crop iff a crop is set, the rotation iff it is not 0 *)
(* and the opacity iff it is not 1.0.  (Checked under SpecStages.)         *)
(***************************************************************************)
\* where a filter is in the video graph, by its output pad (0: nowhere)
PositionOf(out) ==
    LET at == {k \in 1..Len(compiled.video_filters) : compiled.video_filters[k].out = out}
    IN  IF at = {} THEN 0 ELSE CHOOSE k \in at : TRUE

StagePad(i, stage) == Pad(LayerKey(i - 1) \o "_" \o stage)

Emitted(i, stage) == PositionOf(StagePad(i, stage)) > 0

StageOrder == <<"timed", "crop", "scale", "rotate", "opacity">>

StageOps == <<"setpts", "crop", "scale", "rotate", "colorchannelmixer">>

\* where the filters of a layer's format stage are in the video graph
FormatPositions(i) ==
    LET format_filters == Range(get_ffmpeg_filters(layers[i].fg, LayerKey(i - 1),
                                                   compiled.input_map,
                                                   layers[i].alpha_enabled))
    IN  {k \in 1..Len(compiled.video_filters) : compiled.video_filters[k] \in format_filters}

C17_StageOrder ==
    Compiled =>
        \A i \in 1..Len(layers) :
            LET pos == [a \in 1..5 |-> PositionOf(StagePad(i, StageOrder[a]))]
                format == FormatPositions(i)
            IN  /\ pos[1] > 0 <=> (~IsNone(layers[i].comp_start)
                                     /\ Val(layers[i].comp_start) > 0)
                /\ pos[2] > 0 <=> ~IsNone(layers[i].crop)
                /\ pos[4] > 0 <=> layers[i].rotate # 0
                /\ pos[5] > 0 <=> layers[i].opacity # 100
                /\ \A a \in 1..5 :
                      pos[a] > 0 =>
                          /\ compiled.video_filters[pos[a]].op = StageOps[a]
                          /\ \A k \in format : k < pos[a]
                          /\ \A b \in (a + 1)..5 : pos[b] > 0 => pos[a] < pos[b]

\* a layer with all six stages, next to one whose start is 0 and has no shift
C17_Witness ==
    /\ Compiled
    /\ Len(layers) = 2
    /\ \A a \in 1..5 : Emitted(1, StageOrder[a])
    /\ FormatPositions(1) # {}
    /\ layers[2].comp_start = Some(0)
    /\ ~Emitted(2, "timed")

Trimmed(opts, source_trim) ==
    IF IsNone(source_trim)
    THEN "-ss" \notin Range(opts) /\ "-t" \notin Range(opts)
    ELSE LET t == Val(source_trim)
         IN  /\ Occurrences(opts, "-ss") = 1
             /\ \E k \in 1..(Len(opts) - 1) :
                   /\ opts[k] = "-ss" /\ opts[k + 1] = Str(t.start)
                   /\ IF IsNone(t.end)
                      THEN "-t" \notin Range(opts)
                      ELSE /\ Occurrences(opts, "-t") = 1
                           /\ k + 3 <= Len(opts)
                           /\ opts[k + 2] = "-t"
                           /\ opts[k + 3] = Str(Val(t.end) - t.start)

C19_SourceTrimOptions ==
    Compiled =>
        /\ Trimmed(InputOptions(1), Val(background).source_trim)
        /\ \A i \in 1..Len(layers) :
              \A n \in 1..Len(LayerEntries(i)) :
                  /\ compiled.argv[InputPositions(compiled.argv, 1)
                                     [compiled.input_map[LayerEntries(i)[n].key] + 1] + 1]
                       = LayerEntries(i)[n].file
                  /\ Trimmed(InputOptions(compiled.input_map[LayerEntries(i)[n].key] + 1),
                             layers[i].fg.source_trim)

\* a trimmed three-input foreground and an untrimmed one on a background trimmed
\* without an end
C19_Witness ==
    /\ Compiled
    /\ Val(background).source_trim = Some([start |-> 2, end |-> None])
    /\ Len(layers) = 2
    /\ Len(LayerEntries(1)) = 3
    /\ layers[1].fg.source_trim = Some([start |-> 1, end |-> Some(4)])
    /\ IsNone(layers[2].fg.source_trim)
    /\ InputOptions(4) = <<"-ss", "1", "-t", "3">>

(***************************************************************************)
(* C20: the mask binarisation of a compiled command maps every luminance v *)
(* of 0..255 to 255 when v is at or above the threshold (mid-grey, 128)    *)
(* and to 0 when it is below, with no value in between; the bundle and the *)
(* stacked variant carry the same expression.  (Checked under SpecInputs.) *)
(***************************************************************************)
MaskFilters == {f \in Range(compiled.video_filters) : f.op = "geq"}

\* the expression a layer's binarisation filter carries, by the layer's variant
Binarization(i) ==
    IF layers[i].fg.format = "pro_bundle" THEN BundleBinarize ELSE StackedBinarize

Masked == {i \in 1..Len(layers) : layers[i].fg.format \in {"pro_bundle", "stacked_video"}}

C20_HardThreshold ==
    Compiled =>
        /\ \A i \in Masked :
              LET k == PositionOf(Pad(LayerKey(i - 1) \o "_binary_mask"))
              IN  /\ k > 0
                  /\ compiled.video_filters[k].op = "geq"
                  /\ compiled.video_filters[k].args = <<ExprText(Binarization(i))>>
                  /\ \A v \in 0..255 :
                        EvalExpr(Binarization(i), v) = IF v >= 128 THEN 255 ELSE 0
        /\ Cardinality(MaskFilters) > 0 => Cardinality({f.args : f \in MaskFilters}) = 1
        /\ \A f \in MaskFilters : \E i \in Masked : f.out = Pad(LayerKey(i - 1) \o "_binary_mask")

\* a bundle layer and a stacked layer compiled into one command
C20_Witness ==
    /\ Compiled
    /\ Len(layers) = 2
    /\ layers[1].fg.format = "pro_bundle"
    /\ layers[2].fg.format = "stacked_video"
    /\ Cardinality(MaskFilters) = 2

(***************************************************************************)
(* SpecAlpha: layers of the four compilable formats on which alpha(False)  *)
(* and alpha(True) are called, with the default size (a scale stage) or a  *)
(* pixel size without dimensions (no transformation stage at all).         *)
(***************************************************************************)
InitAlpha ==
    /\ webm_support = TRUE
    /\ Constructed(Some(ColorBg))

AlphaAdd ==
    UNCHANGED <<edits, built, apiVars>> /\ \E fg \in {WebmFg, MovFg, BundleFg, StackedFg} : add(fg)
AlphaAlpha == UNCHANGED <<edits, built, apiVars>> /\ \E i \in Layer, on \in BOOLEAN : h_alpha(i, on)
AlphaSize == UNCHANGED <<edits, built, apiVars>> /\ \E i \in Layer : h_size(i, "px", None, None, None, None)
AlphaDryRun == UNCHANGED <<edits, built, apiVars>> /\ dry_run

NextAlpha ==
    \/ AlphaAdd
    \/ AlphaAlpha
    \/ AlphaSize
    \/ AlphaDryRun

SpecAlpha == InitAlpha /\ [][NextAlpha]_vars

(***************************************************************************)
(* C21: the format chain of a layer in a compiled command.  With alpha     *)
(* disabled it only converts the colour stream (the input itself, the RGB  *)
(* input, or the top half of a stacked input) to plain RGB: no grayscale,  *)
(* binarise or merge filter, and the mask input is read by no filter.      *)
(* With alpha enabled the single-file formats have no format filter and    *)
(* their raw input pad feeds the layer's chain; the bundle and the stacked *)
(* format have the mask-merge chain.  (Checked under SpecAlpha.)           *)
(***************************************************************************)
\* the filters of layer i's format stage, in graph order, by the labels they write
FormatChain(i) ==
    LET own == {Pad(LayerKey(i - 1) \o s) :
                  s \in {"_merged", "_rgba", "_mask_gray", "_binary_mask",
                         "_top", "_top_rgba", "_bottom"}}
    IN  SelectSeq(compiled.video_filters, LAMBDA f : f.out \in own)

\* the filters of the video graph that read a pad
Readers(pad) ==
    {k \in 1..Len(compiled.video_filters) : pad \in Range(compiled.video_filters[k].ins)}

SingleFile(i) == layers[i].fg.format \in {"webm_vp9", "mov_prores"}

\* the pad of layer i's colour input and, for a bundle, of its mask input
ColourInput(i) ==
    LET key == LayerKey(i - 1)
    IN  VideoPad(compiled.input_map[
            CASE SingleFile(i) -> key
              [] layers[i].fg.format = "pro_bundle" -> key \o "_rgb"
              [] OTHER -> key \o "_stacked"])

\* alpha disabled: colour stream -> rgb24 and nothing else
PlainRgbOnly(i) ==
    LET chain == FormatChain(i)
        n == Len(chain)
    IN  /\ \A k \in 1..n :
              /\ chain[k].op \notin {"geq", "alphamerge"}
              /\ chain[k].args \notin {<<"gray">>, <<"rgba">>}
        /\ n >= 1
        /\ chain[n].op = "format" /\ chain[n].args = <<"rgb24">>
        /\ chain[n].out = Pad(LayerKey(i - 1) \o "_merged")
        /\ IF layers[i].fg.format = "stacked_video"
           THEN /\ n = 2
                /\ chain[1] = Filter(<<ColourInput(i)>>, "crop", <<"iw", "ih/2", "0", "0">>,
                                     chain[2].ins[1])
           ELSE /\ n = 1
                /\ chain[1].ins = <<ColourInput(i)>>
        /\ layers[i].fg.format = "pro_bundle" =>
              Readers(VideoPad(compiled.input_map[LayerKey(i - 1) \o "_mask"])) = {}

\* alpha enabled, bundle or stacked: gray mask, binarised, merged into the colour
MaskMerge(i) ==
    LET chain == FormatChain(i)
        ops == [k \in 1..Len(chain) |-> <<chain[k].op>> \o chain[k].args]
    IN  /\ \E k \in 1..Len(chain) : ops[k] = <<"format", "gray">>
        /\ \E k \in 1..Len(chain) : chain[k].op = "geq"
        /\ Len(chain) > 0
        /\ chain[Len(chain)].op = "alphamerge"
        /\ chain[Len(chain)].out = Pad(LayerKey(i - 1) \o "_merged")

\* the overlay reads the raw input pad of layer i
RawToOverlay(i) ==
    \E k \in Readers(ColourInput(i)) :
        /\ compiled.video_filters[k].op = "overlay"
        /\ compiled.video_filters[k].ins[2] = ColourInput(i)

\* the raw input pad of layer i is read once: by the layer's first transformation
\* filter, or by the overlay when the layer has none
RawToChain(i) ==
    LET transformed == Emitted(i, "final")
    IN  /\ Cardinality(Readers(ColourInput(i))) = 1
        /\ \A k \in Readers(ColourInput(i)) :
              LET f == compiled.video_filters[k]
              IN  IF transformed
                  THEN /\ f.op # "overlay"
                       /\ f.out \in {StagePad(i, StageOrder[a]) : a \in 1..5}
                  ELSE f.op = "overlay" /\ f.ins[2] = ColourInput(i)

\* the statement with "the overlay consumes the raw input pad" taken literally
C21_RawPadOverlaid ==
    Compiled =>
        \A i \in 1..Len(layers) :
            /\ ~layers[i].alpha_enabled => PlainRgbOnly(i)
            /\ (layers[i].alpha_enabled /\ SingleFile(i)) =>
                  FormatChain(i) = <<>> /\ RawToOverlay(i)
            /\ (layers[i].alpha_enabled /\ ~SingleFile(i)) => MaskMerge(i)

\* C21 as it holds: the raw input pad is consumed by the layer's first
\* transformation filter, and by the overlay only when the layer has none
C21_FormatChain ==
    Compiled =>
        \A i \in 1..Len(layers) :
            /\ ~layers[i].alpha_enabled => PlainRgbOnly(i)
            /\ (layers[i].alpha_enabled /\ SingleFile(i)) =>
                  FormatChain(i) = <<>> /\ RawToChain(i)
            /\ (layers[i].alpha_enabled /\ ~SingleFile(i)) => MaskMerge(i)

\* a bundle with alpha disabled next to a single-file layer with alpha enabled
\* whose raw pad goes through the scale stage
C21_Witness ==
    /\ Compiled
    /\ \E i, j \in 1..Len(layers) :
          /\ layers[i].fg.format = "pro_bundle" /\ ~layers[i].alpha_enabled
          /\ Len(FormatChain(i)) = 1
          /\ SingleFile(j) /\ layers[j].alpha_enabled
          /\ Emitted(j, "scale")
          /\ ~RawToOverlay(j)

(***************************************************************************)
(* SpecPlace: placement.  Layers put at every anchor, with and without     *)
(* offsets, sized to 30% x 40% of the canvas or left at the default size,  *)
(* on a canvas of odd width and height.                                    *)
(***************************************************************************)
OddCanvasBg == empty(641, 361, 24)

InitPlace ==
    /\ webm_support = TRUE
    /\ Constructed(Some(OddCanvasBg))

\* comp.add(fg).at(...).size(...): the calls go to the handle add() returned last
PlaceAdd == UNCHANGED <<edits, built, apiVars>> /\ add(MovFg)
PlaceAt ==
    UNCHANGED <<edits, built, apiVars>> /\
        \/ \E a \in Anchor : h_at(Len(layers), a, -30, 20)
        \/ \E a \in {"top-left", "center", "bottom-right"} : h_at(Len(layers), a, 0, 0)
PlaceSize ==
    UNCHANGED <<edits, built, apiVars>>
    /\ h_size(Len(layers), "canvas_percent", Some(30), Some(40), None, None)
PlaceDryRun == UNCHANGED <<edits, built, apiVars>> /\ dry_run

NextPlace ==
    \/ PlaceAdd
    \/ PlaceAt
    \/ PlaceSize
    \/ PlaceDryRun

SpecPlace == InitPlace /\ [][NextPlace]_vars

(***************************************************************************)
(* C22: placement in canvas-percent mode.  With target box (tw, th) and    *)
(* offset (dx, dy), the x and y expressions of a layer's overlay evaluate, *)
(* for every scaled video size w <= tw, h <= th, to the position at which  *)
(* the video's edge or axis named by the anchor lies on the same edge or   *)
(* axis of the target box, the box itself being placed on the canvas by    *)
(* the anchor: left x = dx, centre x = (W - tw)/2 + dx, right x = W - tw + *)
(* dx, and likewise vertically.  (Checked under SpecPlace; positions are   *)
(* the exact values of the expressions, before the overlay filter rounds   *)
(* them to pixels.)                                                        *)
(***************************************************************************)
\* An overlay position expression as ffmpeg parses it: numbers, the variables W, H,
\* w, h, a - b, a + b, a followed by a signed offset, a / 2 and ( a ).
Term(op, a, b) == [op |-> op, a |-> a, b |-> b]

\* the text of a term
RECURSIVE TermText(_)
TermText(t) ==
    CASE t.op = "num" -> Str(t.a)
      [] t.op = "var" -> t.a
      [] t.op = "sub" -> TermText(t.a) \o "-" \o TermText(t.b)
      [] t.op = "add" -> TermText(t.a) \o "+" \o TermText(t.b)
      [] t.op = "offset" -> TermText(t.a) \o Signed(t.b)
      [] t.op = "half" -> TermText(t.a) \o "/2"
      [] OTHER -> "(" \o TermText(t.a) \o ")"

\* twice the value of a term (so that halves stay whole) where env gives W, H, w, h
RECURSIVE TwiceValue(_, _)
TwiceValue(t, env) ==
    CASE t.op = "num" -> 2 * t.a
      [] t.op = "var" -> 2 * env[t.a]
      [] t.op = "sub" -> TwiceValue(t.a, env) - TwiceValue(t.b, env)
      [] t.op = "add" -> TwiceValue(t.a, env) + TwiceValue(t.b, env)
      [] t.op = "offset" -> TwiceValue(t.a, env) + 2 * t.b
      [] t.op = "half" -> TwiceValue(t.a, env) \div 2
      [] OTHER -> TwiceValue(t.a, env)

\* the expressions an overlay coordinate can be: a box position on the canvas axis
\* C (W or H) for a box of extent t, shifted or not by d, then aligned or not with
\* the video's extent v (w or h) inside the box
Coordinates(C, v, t, d) ==
    LET gap == Term("sub", Term("var", C, 0), Term("num", t, 0))
        box == <<Term("num", 0, 0), gap, Term("half", Term("paren", gap, 0), 0)>>
        placed == box \o [k \in 1..3 |-> Term("offset", box[k], d)]
        slack == Term("paren", Term("sub", Term("num", t, 0), Term("var", v, 0)), 0)
    IN  placed
        \o [k \in 1..6 |-> Term("add", Term("paren", placed[k], 0), slack)]
        \o [k \in 1..6 |-> Term("add", Term("paren", placed[k], 0), Term("half", slack, 0))]

\* the terms a parameter such as x='...' is the text of
Parsed(param, name, C, v, t, d) ==
    LET all == Coordinates(C, v, t, d)
        text == [k \in 1..Len(all) |-> name \o "='" \o TermText(all[k]) \o "'"]
    IN  SelectSeq([k \in 1..Len(all) |-> IF text[k] = param THEN <<all[k]>> ELSE <<>>],
                  LAMBDA s : Len(s) = 1)

\* twice the coordinate the claim gives a video of extent v in a box of extent t
\* on a canvas of extent C: side is 0 (left, top), 1 (centre) or 2 (right, bottom)
TwiceAligned(side, C, v, t, d) == side * (C - t) + 2 * d + side * (t - v)

Side(anchor, first, last) == IF anchor \in first THEN 0 ELSE IF anchor \in last THEN 2 ELSE 1

\* the overlay of layer i in the compiled graph
OverlayOf(i) ==
    CHOOSE f \in Range(compiled.video_filters) :
        f.op = "overlay" /\ f.ins[2] = Pad(LayerKey(i - 1) \o "_final")

C22_BoxAlignment ==
    Compiled =>
        \A i \in 1..Len(layers) :
            layers[i].size.mode = "canvas_percent" =>
                LET canvas == Val(_get_canvas_size(background, canvas_hint))
                    box == _calculate_target_dimensions(layers[i].size, canvas.width,
                                                        canvas.height)
                    params == OverlayOf(i).args
                    xs == Parsed(params[1], "x", "W", "w", box.w, layers[i].dx)
                    ys == Parsed(params[2], "y", "H", "h", box.h, layers[i].dy)
                    sx == Side(layers[i].anchor, {"top-left", "center-left", "bottom-left"},
                               {"top-right", "center-right", "bottom-right"})
                    sy == Side(layers[i].anchor, {"top-left", "top-center", "top-right"},
                               {"bottom-left", "bottom-center", "bottom-right"})
                IN  /\ Len(xs) > 0 /\ Len(ys) > 0
                    /\ \A w \in {box.w, box.w \div 3}, h \in {box.h, box.h \div 2} :
                          LET env == [W |-> canvas.width, H |-> canvas.height,
                                      w |-> w, h |-> h]
                          IN  /\ \A k \in 1..Len(xs) :
                                    TwiceValue(xs[k][1], env)
                                      = TwiceAligned(sx, canvas.width, w, box.w, layers[i].dx)
                              /\ \A k \in 1..Len(ys) :
                                    TwiceValue(ys[k][1], env)
                                      = TwiceAligned(sy, canvas.height, h, box.h, layers[i].dy)

\* a 30% x 40% box at the bottom right with an offset, next to a centred one
\* without offset
C22_Witness ==
    /\ Compiled
    /\ \E i, j \in 1..Len(layers) :
          /\ layers[i].size.mode = "canvas_percent"
          /\ layers[i].anchor = "bottom-right" /\ layers[i].dx = -30 /\ layers[i].dy = 20
          /\ OverlayOf(i).args[1] = "x='(W-192-30)+(192-w)'"
          /\ layers[j].size.mode = "canvas_percent"
          /\ layers[j].anchor = "center" /\ layers[j].dx = 0
          /\ OverlayOf(j).args[2] = "y='((H-144)/2)+(144-h)/2'"

(***************************************************************************)
(* SpecWait: one wait call, with and without a timeout (0 included) and a  *)
(* callback, against every sequence of job states of up to MaxPolls status *)
(* requests, each taking 0 or 1 unit of time.  SpecWaitFair adds that a    *)
(* status request that can be made is eventually made and answered.        *)
(***************************************************************************)
InitWait ==
    /\ webm_support = TRUE
    /\ Constructed(None)

WaitCall ==
    UNCHANGED <<libVars, importer>>
    /\ \E poll_seconds \in {1, 2}, timeout \in {None, Some(0), Some(2)}, on_status \in BOOLEAN :
          wait(poll_seconds, timeout, on_status)
WaitPoll ==
    UNCHANGED <<libVars, importer>>
    /\ \E status \in JobState, latency \in {0, 1} : poll(status, latency)

NextWait ==
    \/ WaitCall
    \/ WaitPoll

SpecWait == InitWait /\ [][NextWait]_vars

SpecWaitFair == SpecWait /\ WF_vars(WaitPoll)

(***************************************************************************)
(* C23: wait returns only a status whose state is "completed"; it raises   *)
(* ProcessingError at the first poll that observes "failed"; and when a    *)
(* timeout is given and the time elapsed at a poll of a non-terminal state *)
(* exceeds it, it raises TimeoutError instead of sleeping and polling      *)
(* again.  (Checked under SpecWait.)                                       *)
(***************************************************************************)
Terminated == client.pc \in {"returned", "ProcessingError", "TimeoutError"}

\* the time that had elapsed when the loop last went to sleep
ElapsedAtSleep == client.now - client.poll_seconds - client.start_time

C23_WaitOutcomes ==
    /\ client.pc = "returned" => client.result = Some("completed")
    /\ ~IsNone(client.result) => client.pc = "returned"
    /\ \A k \in 1..Len(client.polled) :
          client.polled[k] = "failed" =>
              k = Len(client.polled) /\ client.pc = "ProcessingError"
    /\ (client.pc = "polling" /\ client.polled # <<>> /\ ~IsNone(client.timeout)) =>
          ElapsedAtSleep <= Val(client.timeout)

(***************************************************************************)
(* C24: the statuses on_status was called with are the polled statuses     *)
(* with consecutive duplicates removed, and when the job completes they    *)
(* include the terminal "completed".  (Checked under SpecWait.)            *)
(***************************************************************************)
RECURSIVE Deduplicated(_)
Deduplicated(s) ==
    IF Len(s) <= 1 THEN s
    ELSE LET front == Deduplicated(SubSeq(s, 1, Len(s) - 1))
         IN  IF s[Len(s)] = s[Len(s) - 1] THEN front ELSE Append(front, s[Len(s)])

C24_CallbackTrace ==
    client.on_status =>
        /\ client.reported = Deduplicated(client.polled)
        /\ client.pc = "returned" => "completed" \in Range(client.reported)

(***************************************************************************)
(* C30: a wait with a positive timeout terminates (returns or raises)      *)
(* whatever the job states are, when status requests are answered and time *)
(* advances; a wait without a timeout has terminated exactly when a poll   *)
(* observed "completed" or "failed"; and a TimeoutError is raised only     *)
(* after at least one status poll.  (Checked under SpecWaitFair.)          *)
(***************************************************************************)
ObservedTerminal == \E k \in 1..Len(client.polled) : client.polled[k] \in {"completed", "failed"}

C30_WaitTerminates ==
    /\ (client.pc = "polling" /\ ~IsNone(client.timeout) /\ Val(client.timeout) > 0)
          ~> Terminated
    /\ [](IsNone(client.timeout) => (Terminated <=> ObservedTerminal))
    /\ [](client.pc = "TimeoutError" => Len(client.polled) >= 1)

\* the timeout of 2 raised at the fourth poll: three sleeps of one unit, every
\* request answered at once
C30_Witness ==
    /\ client.pc = "TimeoutError"
    /\ client.timeout = Some(2)
    /\ Len(client.polled) = 4
    /\ client.now - client.start_time = 3

(***************************************************************************)
(* SpecImport: one remove_background call on a file or a URL video, with   *)
(* every request succeeding or failing and every sequence of job states.   *)
(***************************************************************************)
InitImport ==
    /\ webm_support = TRUE
    /\ Constructed(None)

ImportCall ==
    UNCHANGED <<libVars, client>> /\ \E kind \in {"file", "url"} : remove_background(kind)
ImportCreate ==
    UNCHANGED <<libVars, client>>
    /\ \E public_url_ok \in BOOLEAN, ok \in BOOLEAN : _create_job(public_url_ok, ok)
ImportUpload == UNCHANGED <<libVars, client>> /\ \E ok \in BOOLEAN : _signed_put(ok)
ImportStart ==
    UNCHANGED libVars /\ \E ok \in BOOLEAN, on_status \in BOOLEAN : start_job(ok, 2, on_status)
ImportPoll == UNCHANGED libVars /\ \E status \in JobState : wait_poll(status, 1)
ImportResult ==
    UNCHANGED <<libVars, client>>
    /\ \E has_url \in BOOLEAN, ok \in BOOLEAN : _from_endpoint(has_url, ok)

NextImport ==
    \/ ImportCall
    \/ ImportCreate
    \/ ImportUpload
    \/ ImportStart
    \/ ImportPoll
    \/ ImportResult

SpecImport == InitImport /\ [][NextImport]_vars

(***************************************************************************)
(* C25: the requests of remove_background come in the order create job,    *)
(* upload (file path only), start job, status polls, download.  start_job  *)
(* is issued only after the job creation, and the upload if there is one,  *)
(* succeeded; the download only after wait returned "completed".  The job  *)
(* is created by create_job_url, without upload, iff the video is a URL    *)
(* and its accessibility check passed; otherwise by create_job_file,       *)
(* followed by exactly one upload.  (Checked under SpecImport.)            *)
(***************************************************************************)
Rank(name) ==
    CASE name \in {"create_job_url", "create_job_file"} -> 1
      [] name = "_signed_put" -> 2
      [] name = "start_job" -> 3
      [] name = "status" -> 4
      [] OTHER -> 5

Requests(name) == {k \in 1..Len(importer.calls) : importer.calls[k].name = name}

C25_RequestOrder ==
    LET calls == importer.calls
        n == Len(calls)
        url == importer.kind = "url" /\ importer.public_url_ok
    IN  /\ \A j \in 1..n, k \in 1..n :
              j < k => /\ Rank(calls[j].name) <= Rank(calls[k].name)
                       /\ Rank(calls[k].name) # 4 => Rank(calls[j].name) < Rank(calls[k].name)
        /\ \A k \in Requests("start_job") :
              /\ \A j \in 1..(k - 1) : calls[j].ok
              /\ k = IF url THEN 2 ELSE 3
        /\ \A k \in Requests("download") :
              /\ client.pc = "returned" /\ client.result = Some("completed")
              /\ calls[k - 1].name = "status"
              /\ client.polled[Len(client.polled)] = "completed"
        /\ importer.downloaded => Requests("download") # {}
        /\ n >= 1 =>
              /\ calls[1].name = IF url THEN "create_job_url" ELSE "create_job_file"
              /\ url => Requests("_signed_put") = {}
              /\ (~url /\ calls[1].ok /\ importer.pc # "_signed_put") =>
                    Requests("_signed_put") = {2}

\* a file was uploaded, processed over three polls and downloaded
C25_Witness ==
    /\ importer.pc = "returned"
    /\ importer.kind = "file"
    /\ importer.downloaded
    /\ Len(client.polled) = 3
    /\ Len(importer.calls) = 7

(***************************************************************************)
(* SpecDelay: layer timing.  Layers with and without an own audio input,   *)
(* started at 0, 2 or 3 or not at all, muted or not, the first one moved   *)
(* above the others or not, over a silent and a sounding background.       *)
(***************************************************************************)
InitDelay ==
    /\ webm_support = TRUE
    /\ \E bg \in {ColorBg, VideoBg} : Constructed(Some(bg))

DelayAdd == UNCHANGED <<edits, built, apiVars>> /\ \E fg \in {WebmFg, BundleFg} : add(fg)
DelayStart == UNCHANGED <<edits, built, apiVars>> /\ \E i \in Layer, t \in {0, 2, 3} : h_start(i, t)
DelayMute == UNCHANGED <<edits, built, apiVars>> /\ \E i \in Layer : h_audio(i, FALSE, 100)
DelayZ == UNCHANGED <<edits, built, apiVars>> /\ h_z(1, 5)
DelayDryRun == UNCHANGED <<edits, built, apiVars>> /\ dry_run

NextDelay ==
    \/ DelayAdd
    \/ DelayStart
    \/ DelayMute
    \/ DelayZ
    \/ DelayDryRun

SpecDelay == InitDelay /\ [][NextDelay]_vars

(***************************************************************************)
(* C26: in a compiled command every audio-enabled layer has its audio in   *)
(* the audio graph; if its start s is > 0 its video chain is shifted by s  *)
(* (setpts=PTS+s/TB) and its own audio stream goes through exactly one     *)
(* adelay, of 1000 * s ms on both channels; if s is unset or 0 there is    *)
(* neither a shift nor a delay for it.  Whatever the other layers' starts, *)
(* in the single-source and in the mixed branch, for any z order.          *)
(* (Checked under SpecDelay; starts are whole seconds.)                    *)
(***************************************************************************)
\* the audio streams layer i contributes to the command
AudioStreams(i) ==
    {compiled.audio_inputs[k].input :
        k \in {m \in 1..Len(compiled.audio_inputs) :
                  /\ compiled.audio_inputs[m].type = "foreground"
                  /\ compiled.audio_inputs[m].layer_index = Some(i - 1)}}

\* the delay filters that read a stream
Delays(stream) ==
    {k \in 1..Len(compiled.audio_filters) :
        /\ compiled.audio_filters[k].op = "adelay"
        /\ compiled.audio_filters[k].ins = <<Pad(stream)>>}

C26_OwnDelay ==
    Compiled =>
        \A i \in 1..Len(layers) :
            layers[i].audio_enabled =>
                LET s == layers[i].comp_start
                    streams == AudioStreams(i)
                    shift == PositionOf(StagePad(i, "timed"))
                IN  /\ Cardinality(streams) = 1
                    /\ \A stream \in streams :
                          IF ~IsNone(s) /\ Val(s) > 0
                          THEN /\ shift > 0
                               /\ compiled.video_filters[shift].args
                                    = <<"PTS-STARTPTS,setpts=PTS+" \o Str(Val(s)) \o "/TB">>
                               /\ Cardinality(Delays(stream)) = 1
                               /\ \A k \in Delays(stream) :
                                     compiled.audio_filters[k].args
                                       = <<Str(1000 * Val(s)) \o "|" \o Str(1000 * Val(s))>>
                          ELSE /\ shift = 0
                               /\ Delays(stream) = {}

\* a muted first layer started at 2 above a second layer started at 3, mixed with
\* the background's audio
C26_Witness ==
    /\ Compiled
    /\ Len(layers) = 2
    /\ ~layers[1].audio_enabled /\ layers[1].comp_start = Some(2) /\ layers[1].z = 5
    /\ layers[2].audio_enabled /\ layers[2].comp_start = Some(3)
    /\ Len(compiled.audio_inputs) = 2
    /\ \A stream \in AudioStreams(2) : Cardinality(Delays(stream)) = 1

(***************************************************************************)
(* SpecFormats: foreground formats.  Layers of the four compilable         *)
(* formats, of the archive format and of a bundle built without mask, with *)
(* and without a background and a canvas hint, with and without libvpx.    *)
(***************************************************************************)
MasklessFg == Foreground("pro_bundle", "color.mp4", None, None, Some(9))

InitFormats ==
    /\ webm_support \in BOOLEAN
    /\ \E bg \in {None, Some(ColorBg)} : Constructed(bg)

FormatsAdd ==
    UNCHANGED <<edits, built, apiVars>>
    /\ \E fg \in {WebmFg, MovFg, BundleFg, StackedFg, ArchiveFg, MasklessFg} : add(fg)
FormatsCanvas == UNCHANGED <<edits, built, apiVars>> /\ set_canvas(1280, 720, 30)
FormatsDryRun == UNCHANGED <<edits, built, apiVars>> /\ dry_run

NextFormats ==
    \/ FormatsAdd
    \/ FormatsCanvas
    \/ FormatsDryRun

SpecFormats == InitFormats /\ [][NextFormats]_vars

(***************************************************************************)
(* C27: compiling a composition with a layer that is still in the archive  *)
(* format, or is a bundle without mask path, raises an error and yields no *)
(* argument vector; a composition whose layers are all in the four         *)
(* compilable formats with their required paths compiles.  (Checked under  *)
(* SpecFormats.)                                                           *)
(***************************************************************************)
Uncompilable(fg) ==
    \/ fg.format \notin {"webm_vp9", "mov_prores", "pro_bundle", "stacked_video"}
    \/ fg.format = "pro_bundle" /\ IsNone(fg.mask_path)

RejectsBadLayers ==
    (\E i \in 1..Len(layers) : Uncompilable(layers[i].fg)) =>
        /\ compiled.status \in {"ValueError", "RuntimeError"}
        /\ compiled.argv = <<>>

CanvasKnown ==
    \/ /\ ~IsNone(background)
       /\ Val(background).width # 0 /\ Val(background).height # 0 /\ Val(background).fps # 0
    \/ ~IsNone(canvas_hint)

\* the statement as it reads: compilable layers are all that compiling needs
C27_AlwaysCompiles ==
    compiled.status # "none" =>
        /\ RejectsBadLayers
        /\ (\A i \in 1..Len(layers) : ~Uncompilable(layers[i].fg)) =>
              compiled.status = "ok" /\ compiled.argv # <<>>

\* C27 as it holds: compilable layers compile when the canvas size is known from
\* the background or from set_canvas, and raise the canvas error otherwise
C27_FormatErrors ==
    compiled.status # "none" =>
        /\ RejectsBadLayers
        /\ (\A i \in 1..Len(layers) : ~Uncompilable(layers[i].fg)) =>
              IF CanvasKnown
              THEN compiled.status = "ok" /\ compiled.argv # <<>>
              ELSE compiled.status = "RuntimeError" /\ compiled.argv = <<>>

\* a bundle without mask after a compilable layer is rejected, on a known canvas
C27_Witness ==
    /\ compiled.status = "ValueError"
    /\ compiled.argv = <<>>
    /\ CanvasKnown
    /\ Len(layers) = 2
    /\ ~Uncompilable(layers[1].fg)
    /\ layers[2].fg = MasklessFg

(***************************************************************************)
(* SpecHandle: every LayerHandle method, called on any layer of up to      *)
(* MaxLayers layers, up to MaxEdits + 1 calls in all so that a call can    *)
(* follow another one on the same layer and on the same attribute.         *)
(***************************************************************************)
InitHandle ==
    /\ webm_support = TRUE
    /\ Constructed(Some(ColorBg))

HandleCall == edits <= MaxEdits /\ edits' = edits + 1 /\ UNCHANGED <<built, apiVars>>

HandleAdd == UNCHANGED <<edits, built, apiVars>> /\ \E fg \in {WebmFg, BundleFg} : add(fg)
HandleAt == HandleCall /\ \E i \in Layer : h_at(i, "top-left", -50, 0)
HandleXy == HandleCall /\ \E i \in Layer : h_xy(i, "10", "20")
HandleSize == HandleCall /\ \E i \in Layer : h_size(i, "cover", None, None, None, None)
HandleOpacity == HandleCall /\ \E i \in Layer, v \in {50, 150} : h_opacity(i, v)
HandleRotate == HandleCall /\ \E i \in Layer : h_rotate(i, 90)
HandleCrop == HandleCall /\ \E i \in Layer : h_crop(i, 10, 20, 300, 200)
HandleStart == HandleCall /\ \E i \in Layer, t \in {0, 3} : h_start(i, t)
HandleEnd == HandleCall /\ \E i \in Layer : h_end(i, 8)
HandleDuration == HandleCall /\ \E i \in Layer : h_duration(i, 4)
HandleSubclip == HandleCall /\ \E i \in Layer : h_subclip(i, 1, Some(4))
HandleAudio == HandleCall /\ \E i \in Layer : h_audio(i, FALSE, 150)
HandleZ == HandleCall /\ \E i \in Layer : h_z(i, -1)
HandleAlpha == HandleCall /\ \E i \in Layer : h_alpha(i, FALSE)

NextHandle ==
    \/ HandleAdd
    \/ HandleAt
    \/ HandleXy
    \/ HandleSize
    \/ HandleOpacity
    \/ HandleRotate
    \/ HandleCrop
    \/ HandleStart
    \/ HandleEnd
    \/ HandleDuration
    \/ HandleSubclip
    \/ HandleAudio
    \/ HandleZ
    \/ HandleAlpha

SpecHandle == InitHandle /\ [][NextHandle]_vars

(***************************************************************************)
(* C28: add and the LayerHandle calls never remove or reorder layers: a    *)
(* step keeps every layer at its position, add appends one.  A builder     *)
(* call changes one layer only, and on it only the attributes the method   *)
(* names, which take the values of the arguments whatever they were before *)
(* (so calls on different attributes commute and the last call on an       *)
(* attribute wins).  (Checked under SpecHandle.)                           *)
(***************************************************************************)
\* the attributes each LayerHandle method names
MethodAttributes ==
    {{"anchor", "dx", "dy"}, {"x_expr", "y_expr"}, {"size"}, {"opacity"}, {"rotate"},
     {"crop"}, {"comp_start"}, {"comp_end"}, {"comp_duration"}, {"source_trim"},
     {"audio_enabled", "audio_volume"}, {"z"}, {"alpha_enabled"}}

\* the attributes of layer i that a step changes
Changed(i) == {a \in DOMAIN layers[i] : layers'[i][a] # layers[i][a]}

C28_BuilderFrame ==
    [][ /\ Len(layers') >= Len(layers)
        /\ Len(layers') > Len(layers) =>
              /\ Len(layers') = Len(layers) + 1
              /\ SubSeq(layers', 1, Len(layers)) = layers
        /\ Len(layers') = Len(layers) =>
              /\ \A i \in 1..Len(layers), j \in 1..Len(layers) :
                    (Changed(i) # {} /\ Changed(j) # {}) => i = j
              /\ \A i \in 1..Len(layers) :
                    \E named \in MethodAttributes : Changed(i) \subseteq named
              /\ \A i \in 1..Len(layers) :
                    /\ \A v \in {50, 150} :
                          h_opacity(i, v) => layers'[i].opacity = Max2(0, Min2(100, v))
                    /\ \A t \in {0, 3} : h_start(i, t) => layers'[i].comp_start = Some(t)
                    /\ h_audio(i, FALSE, 150) =>
                          ~layers'[i].audio_enabled /\ layers'[i].audio_volume = 100
                    /\ h_z(i, -1) => layers'[i].z = -1
      ]_vars

\* two calls on the first of two layers: opacity set, then set again, while the
\* second layer and every other attribute are as add left them
C28_Witness ==
    /\ edits = 2
    /\ Len(layers) = 2
    /\ layers[1] = [NewLayer(WebmFg, 0) EXCEPT !.opacity = 50]
    /\ layers[2] = NewLayer(BundleFg, 1)

(***************************************************************************)
(* SpecGraph: layers of the three kinds of format over a colour or a video *)
(* background; the layer just added can have its alpha switched off, be    *)
(* sent below the others, be delayed, and have its volume changed or its   *)
(* audio muted, within the budget of MaxEdits handle calls.                *)
(***************************************************************************)
InitGraph ==
    /\ webm_support = TRUE
    /\ \E bg \in {ColorBg, VideoBg} : Constructed(Some(bg))

GraphAdd ==
    UNCHANGED <<edits, built, apiVars>> /\ \E fg \in {WebmFg, BundleFg, StackedFg} : add(fg)
GraphAlpha == Edited /\ h_alpha(Len(layers), FALSE)
GraphZ == Edited /\ h_z(Len(layers), -1)
GraphStart == Edited /\ h_start(Len(layers), 2)
GraphAudio == Edited /\ \E enabled \in BOOLEAN : h_audio(Len(layers), enabled, 50)
GraphDryRun == UNCHANGED <<edits, built, apiVars>> /\ dry_run

NextGraph ==
    \/ GraphAdd
    \/ GraphAlpha
    \/ GraphZ
    \/ GraphStart
    \/ GraphAudio
    \/ GraphDryRun

SpecGraph == InitGraph /\ [][NextGraph]_vars

(***************************************************************************)
(* C29: the compiled filter graph is well-formed.  No two filters produce  *)
(* the same label; every label a filter reads is a stream of an allocated  *)
(* input slot or was produced by an earlier filter of the list; and every  *)
(* produced label is read exactly once, or is [out] or [audio_out] and     *)
(* mapped to the output.  (Checked under SpecGraph.)                       *)
(***************************************************************************)
\* all_filter_parts: the video filters followed by the audio filters
Graph == compiled.video_filters \o compiled.audio_filters

\* the video and audio pads of the allocated input slots
InputPads ==
    UNION {{VideoPad(compiled.input_map[key]), Pad(AudioStream(compiled.input_map[key]))} :
           key \in DOMAIN compiled.input_map}

\* the places (filter, input position) of graph g where a label is read; the
\* widest filter is the mix of every layer's audio and the background's
Reads(g, label) ==
    {pl \in (1..Len(g)) \X (1..(MaxLayers + 1)) :
        pl[2] <= Len(g[pl[1]].ins) /\ g[pl[1]].ins[pl[2]] = label}

\* the label is an output of the graph that the command maps
Mapped(label) ==
    /\ label \in {"[out]", "[audio_out]"}
    /\ \E k \in 1..(Len(compiled.argv) - 1) :
          compiled.argv[k] = "-map" /\ compiled.argv[k + 1] = label

C29_WellFormedGraph ==
    Compiled =>
        LET g == Graph
            pads == InputPads
        IN  \A n \in 1..Len(g) :
                LET f == g[n]
                IN  /\ Len(f.ins) <= MaxLayers + 1
                    /\ \A m \in 1..Len(g) : g[m].out = f.out => m = n
                    /\ \A k \in 1..Len(f.ins) :
                          \/ f.ins[k] \in pads
                          \/ \E p \in 1..(n - 1) : g[p].out = f.ins[k]
                    /\ \/ Mapped(f.out) /\ Reads(g, f.out) = {}
                       \/ Cardinality(Reads(g, f.out)) = 1

\* a stacked layer and a bundle layer sent below it, over a video with sound:
\* the stacked input is read twice and the three audio sources are mixed
C29_Witness ==
    /\ Compiled
    /\ Len(layers) = 2
    /\ layers[1].fg = StackedFg
    /\ layers[2].fg = BundleFg
    /\ layers[2].z = -1
    /\ Cardinality(Reads(Graph, VideoPad(compiled.input_map["layer_0_stacked"]))) = 2
    /\ \E n \in 1..Len(Graph) : Graph[n].op = "amix" /\ Len(Graph[n].ins) = 3
====
